---- MODULE Spec2Model ----
(***************************************************************************)
(* Model of the interception/decision engine of the `keyboard` package:    *)
(* _KeyboardListener (pressed-key state, decision merge, suspension and    *)
(* replay) and the hooks it drives (_SimpleHook, _KeyHook, _HotkeyHook     *)
(* with its transition table), translated from keyboard/__init__.py.       *)
(*                                                                         *)
(* The device driver is modelled as the test suite's fake driver does      *)
(* (_keyboard_tests.py, TestNewCore.setUp): an injected press/release is   *)
(* passed downstream and echoed synchronously to process_sync_event.       *)
(***************************************************************************)
EXTENDS Integers, Sequences, FiniteSets, TLC

(***************************************************************************)
(* Bounds of the model.                                                    *)
(***************************************************************************)
\* Number of events the driver delivers in one behaviour.
MaxEvents == 5
\* Number of disable() calls in one behaviour.
MaxDisables == 1
\* How many calls of enable() and disable_hook_by_id() are made.
MaxOps == 2
\* How often the listener is stopped.
MaxStops == 1

(***************************************************************************)
(* Values.                                                                 *)
(***************************************************************************)
KEY_DOWN == "down"
KEY_UP == "up"

ALLOW == "ALLOW"
SUSPEND == "SUSPEND"
SUPPRESS == "SUPPRESS"
\* What a user callback may hand back besides a decision: any other value
\* (None, a string, ...) or an exception.
NONE == "None"
RAISE == "raise"
\* A callback that calls keyboard.press(CallbackKey) and hands back None.
PRESS == "press"
\* The key such a callback presses.
CallbackKey == 1

\* _Enum.n: the rank the decisions are ordered by.
EnumN(d) == CASE d = ALLOW -> 0 [] d = SUSPEND -> 1 [] d = SUPPRESS -> 2

\* A faulty _Enum.__lt__, the order reversed: C2 fails with it.
EnumGt(a, b) == EnumN(a) > EnumN(b)

\* _Enum.__lt__
EnumLt(a, b) == EnumN(a) < EnumN(b)

\* The scan codes the driver reports as modifiers (the test suite's set).
modifier_scan_codes == {-1, -2, -3}

\* is_modifier, for a scan code.
is_modifier(key) == key \in modifier_scan_codes

(***************************************************************************)
(* Tuples and sorting.                                                     *)
(***************************************************************************)
\* sorted(...) of a sequence of scan codes.
sorted(s) == SortSeq(s, LAMBDA a, b: a < b)

RECURSIVE SetToSeq(_)
\* list(a_set): some listing of the set; every use sorts the result.
SetToSeq(S) == IF S = {} THEN <<>>
               ELSE LET x == CHOOSE y \in S: \A z \in S: y <= z
                    IN <<x>> \o SetToSeq(S \ {x})

\* The elements of a sequence.
Range(s) == {s[i]: i \in DOMAIN s}

\* The last element of a non-empty sequence: s[-1].
Last(s) == s[Len(s)]

\* list.remove(x): drops the first element equal to x.
RemoveFirst(s, x) ==
    IF \E i \in DOMAIN s: s[i] = x
    THEN LET k == CHOOSE i \in DOMAIN s: s[i] = x /\ \A j \in 1..(i-1): s[j] # x
         IN SubSeq(s, 1, k-1) \o SubSeq(s, k+1, Len(s))
    ELSE s

\* dict.get(key, default)
Get(d, k, default) == IF k \in DOMAIN d THEN d[k] ELSE default

(***************************************************************************)
(* Hotkey, Step, Key.  A Key is the tuple of its scan codes, a Step the    *)
(* tuple of its Keys, a Hotkey the tuple of its Steps.                     *)
(***************************************************************************)
\* Step.modifiers: the positions of the keys whose first scan code is a modifier.
StepModifiers(step) == {i \in DOMAIN step: is_modifier(step[i][1])}

\* Step.is_standard
is_standard(step) == Len(step) = Cardinality(StepModifiers(step)) + 1

\* Step.main_key of a standard step: the first key that is not a modifier.
main_key(step) ==
    step[CHOOSE i \in DOMAIN step \ StepModifiers(step):
            \A j \in DOMAIN step \ StepModifiers(step): i <= j]

RECURSIVE Product(_)
\* itertools.product(*[key.scan_codes for key in step.keys]), in its order.
Product(keys) ==
    IF keys = <<>> THEN << <<>> >>
    ELSE LET rest == Product(Tail(keys))
             RECURSIVE Row(_)
             Row(i) == IF i > Len(keys[1]) THEN <<>>
                       ELSE [j \in DOMAIN rest |-> <<keys[1][i]>> \o rest[j]] \o Row(i+1)
         IN Row(1)

\* transitions[state, inputs] of the defaultdict: 0 when never set.
Lookup(transitions, state, inputs) == Get(transitions, <<state, inputs>>, 0)

RECURSIVE get_final_state(_, _, _)
\* get_final_state of build_hotkey_transition_table.
get_final_state(transitions, sequence, state) ==
    IF sequence = <<>> THEN state
    ELSE get_final_state(transitions, Tail(sequence), Lookup(transitions, state, sequence[1]))

\* max(...) of a non-empty set of integers.
MaxInt(S) == CHOOSE x \in S: \A y \in S: y <= x

\* The failure-link rows written for step i (0-based) from the inputs recorded
\* for the earlier steps.
OverlapRows(transitions, history, i) ==
    [k \in {<<i, p>>: p \in Range(history)} |->
        MaxInt({get_final_state(transitions,
                                SubSeq(history, j+1, Len(history)) \o <<k[2]>>, 0):
                j \in 1..Len(history)})]

\* Faulty rows, keyed by the combinations as the product yields them: C27
\* fails with them.
StepRowsUnsorted(step, i) ==
    [k \in {<<i, c>>: c \in Range(Product(step))} |-> i + 1]

\* The rows i -> i+1, one for each combination of one scan code per key.
StepRows(step, i) ==
    [k \in {<<i, sorted(c)>>: c \in Range(Product(step))} |-> i + 1]

RECURSIVE BuildFrom(_, _, _, _)
\* The loop of build_hotkey_transition_table from step i (0-based) on.
BuildFrom(hotkey, i, transitions, history) ==
    IF i >= Len(hotkey) THEN transitions
    ELSE LET step == hotkey[i+1]
             t1 == OverlapRows(transitions, history, i) @@ transitions
             t2 == StepRows(step, i) @@ t1
             prod == Product(step)
         IN BuildFrom(hotkey, i+1, t2, Append(history, prod[Len(prod)]))

\* _HotkeyHook.build_hotkey_transition_table
build_hotkey_transition_table(hotkey) == BuildFrom(hotkey, 0, <<>>, <<>>)

(***************************************************************************)
(* Events.  A KeyboardEvent is compared and hashed by its event type, scan *)
(* code and time (device and name are the same for all events here).       *)
(***************************************************************************)
KeyboardEvent(event_type, scan_code, time) ==
    [event_type |-> event_type, scan_code |-> scan_code, time |-> time]

(***************************************************************************)
(* The hooks that can be registered.  `results` is what the user's         *)
(* callback may hand back when it is called.                               *)
(***************************************************************************)
\* add_hotkey's default timeout, in seconds.
DefaultTimeout == 1
\* Clock ticks per second: event times are whole ticks.
TicksPerSecond == 2

\* The timeout of the hotkeys, in ticks.
Timeout == DefaultTimeout * TicksPerSecond

SimpleHook(results) ==
    [kind |-> "simple", scan_codes |-> <<>>, hotkey |-> <<>>, timeout |-> 0,
     trigger_on_release |-> FALSE, results |-> results]

KeyHook(scan_codes, results) ==
    [kind |-> "key", scan_codes |-> scan_codes, hotkey |-> <<>>, timeout |-> 0,
     trigger_on_release |-> FALSE, results |-> results]

HotkeyHook(hotkey, timeout, trigger_on_release, results) ==
    [kind |-> "hotkey", scan_codes |-> <<>>, hotkey |-> hotkey, timeout |-> timeout,
     trigger_on_release |-> trigger_on_release, results |-> results]

\* One-key steps and hotkeys of the scenarios.
StepOf(scan_codes) == [i \in DOMAIN scan_codes |-> <<scan_codes[i]>>]

Hooks ==
    [allow1   |-> SimpleHook({ALLOW, NONE}),
     allow2   |-> SimpleHook({ALLOW}),
     simpleA  |-> SimpleHook({ALLOW, SUSPEND, SUPPRESS, NONE}),
     simpleB  |-> SimpleHook({ALLOW, SUSPEND, SUPPRESS}),
     simpleC  |-> SimpleHook({ALLOW, SUSPEND, SUPPRESS}),
     raiser   |-> SimpleHook({ALLOW, RAISE}),
     hk_a     |-> HotkeyHook(<<StepOf(<<0>>)>>, Timeout, FALSE, {NONE}),
     hk_ab    |-> HotkeyHook(<<StepOf(<<0>>), StepOf(<<1>>)>>, Timeout, FALSE, {NONE}),
     hk_ba    |-> HotkeyHook(<<StepOf(<<1>>), StepOf(<<0>>)>>, Timeout, FALSE, {NONE}),
     hk_mab   |-> HotkeyHook(<<StepOf(<<-1, 0>>), StepOf(<<1>>)>>, Timeout, FALSE, {NONE}),
     hk_a3    |-> HotkeyHook(<<StepOf(<<0>>)>>, Timeout, FALSE, {NONE}),
     listener |-> SimpleHook({NONE}),
     hk_combo |-> HotkeyHook(<<StepOf(<<0, 1>>)>>, Timeout, FALSE, {NONE}),
     hk_mods  |-> HotkeyHook(<<StepOf(<<-1, -2>>)>>, Timeout, FALSE, {NONE}),
     hk_ab_any |-> HotkeyHook(<<StepOf(<<0>>), StepOf(<<1>>)>>, Timeout, FALSE, {NONE, ALLOW}),
     hk_rel   |-> HotkeyHook(<<StepOf(<<0>>)>>, Timeout, TRUE, {NONE}),
     hk_mrel  |-> HotkeyHook(<<StepOf(<<-1, 0>>)>>, Timeout, TRUE, {NONE}),
     hk_raise |-> HotkeyHook(<<StepOf(<<0>>)>>, Timeout, FALSE, {NONE, RAISE}),
     key02    |-> KeyHook(<<0, 2>>, {ALLOW, SUSPEND, SUPPRESS, NONE}),
     hk_chord |-> HotkeyHook(<<StepOf(<<-2, -1, 0>>)>>, Timeout, FALSE, {NONE}),
     hk_a_bc  |-> HotkeyHook(<<StepOf(<<0>>), StepOf(<<1, 2>>)>>, Timeout, FALSE, {NONE}),
     hk_send  |-> HotkeyHook(<<StepOf(<<0>>)>>, Timeout, FALSE, {PRESS})]

HookIds == DOMAIN Hooks

\* hook.transitions, built once per hook at registration.
Transitions ==
    [id \in HookIds |-> build_hotkey_transition_table(Hooks[id].hotkey)]

\* The inputs of a step: tuple(sorted(...)) of one scan code per key.
StepInputs(step) == {sorted(c): c \in Range(Product(step))}

\* A key with two scan codes, as the left and the right key of one name.
EitherKey == <<0, 2>>

\* The hotkeys tables are built for: single keys in two and in four steps
\* (test_single_keys_multistep_blocking_hotkey, test_many_steps_hotkey), a
\* step that comes back, a modifier step, a step of two keys repeated, listed
\* in sorted order and not, and a key of two scan codes repeated.
TableHotkeys ==
    {<<StepOf(<<0>>), StepOf(<<1>>)>>,
     <<StepOf(<<0>>), StepOf(<<0>>), StepOf(<<0>>), StepOf(<<1>>)>>,
     <<StepOf(<<0>>), StepOf(<<1>>), StepOf(<<0>>), StepOf(<<2>>)>>,
     <<StepOf(<<-1, 0>>), StepOf(<<1>>)>>,
     <<StepOf(<<0, 1>>), StepOf(<<0, 1>>), StepOf(<<2>>)>>,
     <<StepOf(<<1, 0>>), StepOf(<<1, 0>>), StepOf(<<2>>)>>,
     << <<EitherKey>>, <<EitherKey>>, StepOf(<<1>>) >>}

\* A scan code of no hotkey.
OtherKey == 3

\* The inputs looked up in a hotkey's table: those of its steps, and a key of
\* no step.
Inputs(hotkey) == UNION {StepInputs(hotkey[i]): i \in DOMAIN hotkey} \cup {<<OtherKey>>}

\* Inputs looked up in a table.
MaxInputs == 5

\* No table built.
NoAutomaton ==
    [stage |-> "none", hotkey |-> <<>>, transitions |-> <<>>, state |-> 0,
     inputs |-> <<>>, targets |-> <<>>]

\* _HotkeyHook.__init__: the mutable state of a hook.
InitialHookState ==
    [state |-> 0, suspended_events |-> <<>>, scan_code_releases_to_suppress |-> {}]

(***************************************************************************)
(* The world the handlers run in: the listener's fields, the hooks' state, *)
(* and what an observer downstream of the driver has seen.  The operators  *)
(* below take a world W and give the world after the call.                 *)
(***************************************************************************)
\* A callback was called: count it, note an exception leaving it, and log
\* the call: whose callback, for which event, in which state of the hook,
\* whether the event was on the async queue by then, and what came back.
Called(W, id, event, result) ==
    [W EXCEPT !.calls[id] = @ + 1, !.raised = (result = RAISE),
              !.fired = Append(@, [id |-> id, event |-> event,
                                   state |-> W.hook_state[id].state,
                                   queued |-> event \in Range(W.async_events_queue),
                                   result |-> result])]

\* What process_event hands back: the world after it, and its decision map
\* (a function from events to decisions).
HookReturn(W, decisions) == [W |-> W, decisions |-> decisions]

\* A faulty _SimpleHook.process_event, for which a callback that returns no
\* decision suppresses the event: C1 fails with it.
simple_process_event_strict(W, id, event, result) ==
    HookReturn(Called(W, id, event, result),
               event :> (IF result \in {ALLOW, SUSPEND, SUPPRESS} THEN result ELSE SUPPRESS))

\* _SimpleHook.process_event
simple_process_event(W, id, event, result) ==
    LET W1 == Called(W, id, event, result)
    IN HookReturn(W1, event :> (IF result \in {ALLOW, SUSPEND, SUPPRESS} THEN result ELSE ALLOW))

\* A faulty _KeyHook.process_event, which returns what a _SimpleHook returns
\* for the events of its key: C13 fails with it.
key_process_event_as_simple(W, id, event, result) ==
    IF event.scan_code \in Range(Hooks[id].scan_codes)
    THEN HookReturn(Called(W, id, event, result),
                    event :> (IF result \in {ALLOW, SUSPEND, SUPPRESS} THEN result ELSE ALLOW))
    ELSE HookReturn(W, event :> ALLOW)

\* _KeyHook.process_event
key_process_event(W, id, event, result) ==
    IF event.scan_code \in Range(Hooks[id].scan_codes)
    THEN HookReturn(Called(W, id, event, result),
                    event :> (IF result \in {ALLOW, SUPPRESS} THEN result ELSE SUPPRESS))
    ELSE HookReturn(W, event :> ALLOW)

\* is_main_key of _HotkeyHook.process_event
IsMainKey(step, event) ==
    IF is_standard(step)
    THEN event.scan_code \in Range(main_key(step))
    ELSE \E i \in DOMAIN step: event.scan_code \in Range(step[i])

\* max(e.time for e in suspended_events)
LastTime(suspended_events) == MaxInt({e.time: e \in Range(suspended_events)})

\* A faulty timeout test, which never times out: C6 fails with it.
NeverTimedOut(suspended_events, event, timeout) == FALSE

\* The timeout test of _HotkeyHook.process_event.
TimedOut(suspended_events, event, timeout) ==
    suspended_events # <<>> /\ event.time - LastTime(suspended_events) >= timeout

\* How many key presses it took to get to `state`.
UsefulPresses(hotkey, state) ==
    LET RECURSIVE Sum(_)
        Sum(i) == IF i > state THEN 0
                  ELSE (IF is_standard(hotkey[i]) THEN 1 ELSE Len(hotkey[i])) + Sum(i+1)
    IN Sum(1)

RECURSIVE DropUseless(_, _, _)
\* The loop over sorted(suspended_events, by time, newest first): every event
\* met once the useful presses are used up is removed from suspended_events.
DropUseless(byTime, suspended_events, n_useful_presses_left) ==
    IF byTime = <<>> THEN suspended_events
    ELSE LET e == Head(byTime)
             kept == IF n_useful_presses_left <= 0
                     THEN RemoveFirst(suspended_events, e) ELSE suspended_events
             n == IF e.event_type = KEY_DOWN
                  THEN n_useful_presses_left - 1 ELSE n_useful_presses_left
         IN DropUseless(Tail(byTime), kept, n)

\* A faulty input, which leaves the modifiers out: C7 fails with it.
InputWithoutModifiers(step, event, physically_pressed_keys, active_modifiers) ==
    <<event.scan_code>>

\* The input looked up in the transition table.
InputScanCodes(step, event, physically_pressed_keys, active_modifiers) ==
    IF is_standard(step)
    THEN sorted(<<event.scan_code>> \o SetToSeq(active_modifiers))
    ELSE sorted(SetToSeq(physically_pressed_keys))

\* The hook moves to state1 and keeps the suspended events that are still useful.
MoveTo(hotkey, hs, state1, suspended_events) ==
    [hs EXCEPT !.state = state1,
               !.suspended_events =
                   DropUseless(SortSeq(suspended_events, LAMBDA a, b: a.time > b.time),
                               suspended_events, UsefulPresses(hotkey, state1))]

\* The press is appended to the suspended events and, when the step can be
\* decided, looked up in the transition table.
Advance(h, transitions, step, hs, event, state0, suspended_events, physically_pressed_keys, active_modifiers) ==
    IF is_standard(step)
       \/ Cardinality(physically_pressed_keys) >= Len(step)
       \/ ~IsMainKey(step, event)
    THEN MoveTo(h.hotkey, hs,
                Lookup(transitions, state0,
                       InputScanCodes(step, event, physically_pressed_keys, active_modifiers)),
                suspended_events)
    ELSE [hs EXCEPT !.state = state0, !.suspended_events = suspended_events]

\* The branch of process_event that feeds a press to the transition table:
\* first the timeout, which takes the hook back to state 0.
HotkeyAdvance(h, transitions, step, hs, event, physically_pressed_keys, active_modifiers) ==
    IF TimedOut(hs.suspended_events, event, h.timeout)
    THEN Advance(h, transitions, step, hs, event, 0, <<event>>,
                 physically_pressed_keys, active_modifiers)
    ELSE Advance(h, transitions, step, hs, event, hs.state, Append(hs.suspended_events, event),
                 physically_pressed_keys, active_modifiers)

RECURSIVE Swallow(_, _, _, _)
\* The loop run when the callback did not return ALLOW: which suspended events
\* are suppressed, and which releases will be.
Swallow(suspended_events, logically_pressed_keys, events_to_suppress, releases) ==
    IF suspended_events = <<>>
    THEN [events_to_suppress |-> events_to_suppress, releases |-> releases]
    ELSE LET e == Head(suspended_events)
             is_logically_pressed == e.scan_code \in logically_pressed_keys
             ets == IF ~(e.event_type = KEY_UP /\ is_logically_pressed)
                    THEN Append(events_to_suppress, e) ELSE events_to_suppress
             rel == IF e.event_type = KEY_DOWN /\ ~is_logically_pressed
                    THEN releases \cup {e.scan_code}
                    ELSE IF e.event_type = KEY_UP THEN releases \ {e.scan_code}
                    ELSE releases
         IN Swallow(Tail(suspended_events), logically_pressed_keys, ets, rel)

\* The decision map process_event returns.
HotkeyDecisions(suspended_events, events_to_suppress) ==
    [e \in Range(suspended_events) \cup Range(events_to_suppress) |->
        IF e \in Range(events_to_suppress) THEN SUPPRESS ELSE SUSPEND]

\* The trigger test: the last state, the main key, and the edge asked for.
Triggers(h, state, is_main, event) ==
    /\ state = Len(h.hotkey)
    /\ is_main
    /\ (IF h.trigger_on_release THEN event.event_type = KEY_UP ELSE TRUE)

\* The step process_event works with: steps[min(state, len(steps) - 1)].
ActiveStep(hotkey, state) ==
    hotkey[IF state < Len(hotkey) - 1 THEN state + 1 ELSE Len(hotkey)]

\* A faulty test, for which no release is ever paired: C33 fails with it.
NeverPaired(hs, event) == FALSE

\* A release whose press is among the suspended events.
Paired(hs, event) ==
    /\ event.event_type = KEY_UP
    /\ event.scan_code \in {e.scan_code: e \in Range(hs.suspended_events)}

\* A faulty test, for which no release is ever flagged: C5 fails with it.
NeverFlagged(hs, event) == FALSE

\* A release that was flagged for suppression.
Flagged(hs, event) ==
    /\ event.event_type = KEY_UP
    /\ ~Paired(hs, event)
    /\ event.scan_code \in hs.scan_code_releases_to_suppress

\* The if/elif chain at the head of process_event.
HotkeyStep(W, id, event) ==
    IF event.event_type = KEY_UP
    THEN IF Paired(W.hook_state[id], event)
         THEN [W.hook_state[id] EXCEPT !.suspended_events = Append(@, event)]
         ELSE IF Flagged(W.hook_state[id], event)
         THEN [W.hook_state[id] EXCEPT !.scan_code_releases_to_suppress = @ \ {event.scan_code}]
         ELSE W.hook_state[id]
    ELSE IF event.scan_code \in modifier_scan_codes
            /\ is_standard(ActiveStep(Hooks[id].hotkey, W.hook_state[id].state))
    THEN W.hook_state[id]
    ELSE IF W.hook_state[id].state < Len(Hooks[id].hotkey)
    THEN HotkeyAdvance(Hooks[id], Transitions[id],
                       ActiveStep(Hooks[id].hotkey, W.hook_state[id].state),
                       W.hook_state[id], event,
                       W.physically_pressed_keys, W.active_modifiers)
    ELSE W.hook_state[id]

\* What is seen downstream of the driver.  `src` and `time` say what the event
\* is: one the driver passed, a replayed event (with the time of the event it
\* replays), a modifier press or release
\* around a replay, or an event a callback sent.
Seen(W, src, event_type, scan_code, time) ==
    [W EXCEPT !.out = Append(@, [src |-> src, event_type |-> event_type,
                                 scan_code |-> scan_code, time |-> time, at |-> W.now])]

RECURSIVE process_sync_event(_, _, _)
\* The callbacks of a call that the callback of a hook makes: none of them
\* runs, as the key pressed triggers no hotkey.
NoCallbacks == [h \in HookIds |-> NONE]

\* The call of process_sync_event `nested` was made while a hook was run for
\* the call W is in: the hooks entered in both are kept.
Reentered(W, nested) == [nested EXCEPT !.evaluated = W.evaluated \o @]

\* _os_keyboard.press and release as the tests set them up (send_fake_event):
\* the event is handed to process_sync_event at once, and then seen
\* downstream.
send_fake_event(W, event_type, scan_code) ==
    Seen(Reentered(W, process_sync_event(W, KeyboardEvent(event_type, scan_code, W.now),
                                         NoCallbacks)),
         "sent", event_type, scan_code, 0)

\* keyboard.press(scan_code): send(scan_code, True, False).
keyboard_press(W, scan_code) == send_fake_event(W, KEY_DOWN, scan_code)

\* The end of process_event when the callback has pressed a key and handed
\* back None: the hook's suspended events and flags are what the calls made
\* meanwhile left.
AfterPress(W, id, events_to_suppress) ==
    HookReturn(
        [W EXCEPT !.hook_state[id] =
            [state |-> 0, suspended_events |-> <<>>,
             scan_code_releases_to_suppress |->
                 Swallow(W.hook_state[id].suspended_events, W.logically_pressed_keys,
                         events_to_suppress,
                         W.hook_state[id].scan_code_releases_to_suppress).releases]],
        HotkeyDecisions(<<>>, Swallow(W.hook_state[id].suspended_events,
                                      W.logically_pressed_keys, events_to_suppress,
                                      W.hook_state[id].scan_code_releases_to_suppress
                                     ).events_to_suppress))

\* The hotkey is complete: the callback is called, the hook goes back to
\* state 0 and forgets its suspended events.
HotkeyComplete(W, id, event, hs1, events_to_suppress, result) ==
    IF result = RAISE
    THEN HookReturn(Called([W EXCEPT !.hook_state[id] = hs1], id, event, result), <<>>)
    ELSE IF result = PRESS
    THEN AfterPress(keyboard_press(Called([W EXCEPT !.hook_state[id] = hs1], id, event,
                                          result),
                                   CallbackKey),
                    id, events_to_suppress)
    ELSE IF result # ALLOW
    THEN HookReturn(
           [Called([W EXCEPT !.hook_state[id] = hs1], id, event, result)
               EXCEPT !.hook_state[id] =
                      [state |-> 0, suspended_events |-> <<>>,
                       scan_code_releases_to_suppress |->
                           Swallow(hs1.suspended_events, W.logically_pressed_keys,
                                   events_to_suppress,
                                   hs1.scan_code_releases_to_suppress).releases]],
           HotkeyDecisions(<<>>, Swallow(hs1.suspended_events, W.logically_pressed_keys,
                                         events_to_suppress,
                                         hs1.scan_code_releases_to_suppress).events_to_suppress))
    ELSE HookReturn(
           [Called([W EXCEPT !.hook_state[id] = hs1], id, event, result)
               EXCEPT !.hook_state[id] = [hs1 EXCEPT !.state = 0, !.suspended_events = <<>>]],
           HotkeyDecisions(<<>>, events_to_suppress))

\* The end of process_event, from the hook state hs1 the if/elif chain left.
HotkeyFinish(W, id, event, hs1, is_main, events_to_suppress, result) ==
    IF Triggers(Hooks[id], hs1.state, is_main, event)
    THEN HotkeyComplete(W, id, event, hs1, events_to_suppress, result)
    ELSE HookReturn([W EXCEPT !.hook_state[id] = hs1],
                    HotkeyDecisions(hs1.suspended_events, events_to_suppress))

\* _HotkeyHook.process_event
hotkey_process_event(W, id, event, result) ==
    HotkeyFinish(W, id, event, HotkeyStep(W, id, event),
                 IsMainKey(ActiveStep(Hooks[id].hotkey, W.hook_state[id].state), event),
                 IF Flagged(W.hook_state[id], event) THEN <<event>> ELSE <<>>,
                 result)

\* hook.process_event, by the class of the hook.
process_event(W, id, event, result) ==
    CASE Hooks[id].kind = "simple" -> simple_process_event(W, id, event, result)
      [] Hooks[id].kind = "key" -> key_process_event(W, id, event, result)
      [] Hooks[id].kind = "hotkey" -> hotkey_process_event(W, id, event, result)

(***************************************************************************)
(* The listener.                                                           *)
(***************************************************************************)
RECURSIVE MaxFrom(_, _)
\* max(...) as Python computes it with _Enum.__lt__: the first greatest item.
MaxFrom(best, rest) ==
    IF rest = <<>> THEN best
    ELSE MaxFrom(IF EnumLt(best, Head(rest)) THEN Head(rest) ELSE best, Tail(rest))

\* A faulty merge, for which an event missing from a hook's map counts as
\* Suspend: C10 fails with it.
MergedOrSuspend(hooks_decisions, event) ==
    LET ds == [i \in DOMAIN hooks_decisions |-> Get(hooks_decisions[i], event, SUSPEND)]
    IN MaxFrom(Head(ds), Tail(ds))

\* max(decisions.get(event, ALLOW) for decisions in hooks_decisions)
MergedDecision(hooks_decisions, event) ==
    LET ds == [i \in DOMAIN hooks_decisions |-> Get(hooks_decisions[i], event, ALLOW)]
    IN MaxFrom(Head(ds), Tail(ds))

\* What the claims about one call under the replaying guard compare.
Frame(W) ==
    [physically_pressed_keys |-> W.physically_pressed_keys,
     logically_pressed_keys |-> W.logically_pressed_keys,
     active_modifiers |-> W.active_modifiers,
     suspended_event_pairs |-> W.suspended_event_pairs,
     async_events_queue |-> W.async_events_queue,
     hook_state |-> W.hook_state,
     calls |-> W.calls]

\* A faulty update, which forgets no key on its release: C22 fails with it.
LogicalUpdateKeepsKeys(logically_pressed_keys, event) ==
    IF event.event_type = KEY_DOWN THEN logically_pressed_keys \cup {event.scan_code}
    ELSE logically_pressed_keys

\* The update of logically_pressed_keys for an allowed event.
LogicalUpdate(logically_pressed_keys, event) ==
    IF event.event_type = KEY_DOWN THEN logically_pressed_keys \cup {event.scan_code}
    ELSE IF event.event_type = KEY_UP THEN logically_pressed_keys \ {event.scan_code}
    ELSE logically_pressed_keys

\* The update of physically_pressed_keys.
PhysicalUpdate(physically_pressed_keys, event) ==
    IF event.event_type = KEY_DOWN THEN physically_pressed_keys \cup {event.scan_code}
    ELSE IF event.event_type = KEY_UP THEN physically_pressed_keys \ {event.scan_code}
    ELSE physically_pressed_keys

\* A faulty update, which keeps a modifier that is released: C23 fails with it.
ModifierUpdateKeepsKeys(active_modifiers, event) ==
    IF event.scan_code \in modifier_scan_codes /\ event.event_type = KEY_DOWN
    THEN active_modifiers \cup {event.scan_code}
    ELSE active_modifiers

\* The update of active_modifiers.
ModifierUpdate(active_modifiers, event) ==
    IF event.scan_code \in modifier_scan_codes
    THEN IF event.event_type = KEY_DOWN THEN active_modifiers \cup {event.scan_code}
         ELSE IF event.event_type = KEY_UP THEN active_modifiers \ {event.scan_code}
         ELSE active_modifiers
    ELSE active_modifiers

\* One hook's turn in the loop of run_sync_hooks.
HookTurn(r, hooks_decisions) ==
    [W |-> r.W,
     hooks_decisions |-> IF r.W.raised THEN hooks_decisions
                         ELSE Append(hooks_decisions, r.decisions)]

RECURSIVE RunHooksLastFirst(_, _, _, _)
\* A faulty loop, which runs the hooks from the last registered to the first:
\* C20 fails with it.
RunHooksLastFirst(acc, hooks, event, cb) ==
    IF hooks = <<>> \/ acc.W.raised THEN acc
    ELSE RunHooksLastFirst(
             HookTurn(process_event([acc.W EXCEPT !.evaluated = Append(@, Last(hooks))],
                                    Last(hooks), event, cb[Last(hooks)]),
                      acc.hooks_decisions),
             SubSeq(hooks, 1, Len(hooks) - 1), event, cb)

RECURSIVE RunHooks(_, _, _, _)
\* [run_hook(hook) for hook in self.suppressing_hooks]: the hooks run one after
\* the other, and an exception leaving one ends the loop.
RunHooks(acc, hooks, event, cb) ==
    IF hooks = <<>> \/ acc.W.raised THEN acc
    ELSE RunHooks(HookTurn(process_event([acc.W EXCEPT !.evaluated = Append(@, Head(hooks))],
                                         Head(hooks), event, cb[Head(hooks)]),
                           acc.hooks_decisions),
                  Tail(hooks), event, cb)

\* What process_sync_event returns for the decision left in W.decision.
Return(W, event) ==
    IF W.decision = "raised" THEN [W EXCEPT !.ret = "raised"]
    ELSE IF W.decision = ALLOW
    THEN [W EXCEPT !.logically_pressed_keys = LogicalUpdate(@, event), !.ret = "True"]
    ELSE [W EXCEPT !.ret = "False"]

\* The record kept of a call made while the replaying guard is set.
GuardedCall(W, event, after) ==
    [after EXCEPT !.guarded = Append(@, [event |-> event, before |-> Frame(W),
                                         after |-> Frame(after), ret |-> after.ret])]

\* A faulty guard, under which physically_pressed_keys is updated: C4 fails
\* with it.
process_sync_event_unguarded(W, event) ==
    GuardedCall(W, event,
                Return([W EXCEPT !.decision = ALLOW,
                                 !.physically_pressed_keys = PhysicalUpdate(@, event)],
                       event))

\* process_sync_event called while is_replaying is set.
process_sync_event_replaying(W, event) ==
    GuardedCall(W, event, Return([W EXCEPT !.decision = ALLOW], event))

\* _os_keyboard.press / _os_keyboard.release of the driver: the event is echoed
\* to process_sync_event, which is replaying, and is then seen downstream.
os_keyboard_send(W, event_type, scan_code, src, time) ==
    Seen(process_sync_event_replaying(W, KeyboardEvent(event_type, scan_code, W.now)),
         src, event_type, scan_code, time)

\* The element of a set of modifiers a `for` loop over the set comes to
\* first: the one that is first in the order the sets are iterated in.
FirstOf(iteration_order, modifiers) ==
    iteration_order[CHOOSE i \in DOMAIN iteration_order:
                        /\ iteration_order[i] \in modifiers
                        /\ \A j \in 1..(i-1): iteration_order[j] \notin modifiers]

RECURSIVE Inject(_, _, _)
\* A loop of presses or of releases over a set of modifiers, in the order the
\* set is iterated in.
Inject(W, event_type, modifiers) ==
    IF modifiers = {} THEN W
    ELSE Inject(os_keyboard_send(W, event_type, FirstOf(W.iteration_order, modifiers),
                                 "fix", 0),
                event_type,
                modifiers \ {FirstOf(W.iteration_order, modifiers)})

\* A suspended event is replayed: the modifiers it was typed with are put in
\* place, it is injected, and it leaves the suspended list.
Replay(W, pair, temporary_modifiers_state) ==
    [os_keyboard_send(
        Inject(Inject(W, KEY_UP, temporary_modifiers_state \ pair.modifiers),
               KEY_DOWN, pair.modifiers \ temporary_modifiers_state),
        pair.event.event_type, pair.event.scan_code, "replay", pair.event.time)
     EXCEPT !.suspended_event_pairs = RemoveFirst(@, pair)]

RECURSIVE ReplayLoop(_, _, _, _)
\* The loop of run_sync_hooks over list(self.suspended_event_pairs).
ReplayLoop(W, pairs, hooks_decisions, temporary_modifiers_state) ==
    IF pairs = <<>> THEN [W |-> W, temporary_modifiers_state |-> temporary_modifiers_state]
    ELSE IF MergedDecision(hooks_decisions, Head(pairs).event) = SUSPEND
    THEN ReplayLoop(W, Tail(pairs), hooks_decisions, temporary_modifiers_state)
    ELSE IF MergedDecision(hooks_decisions, Head(pairs).event) = SUPPRESS
    THEN ReplayLoop([W EXCEPT !.suspended_event_pairs = RemoveFirst(@, Head(pairs))],
                    Tail(pairs), hooks_decisions, temporary_modifiers_state)
    ELSE ReplayLoop(Replay(W, Head(pairs), temporary_modifiers_state),
                    Tail(pairs), hooks_decisions, Head(pairs).modifiers)

\* "Restore state of modifiers", and the guard is cleared.
RestoreModifiers(l) ==
    [Inject(Inject(l.W, KEY_DOWN, l.W.active_modifiers \ l.temporary_modifiers_state),
            KEY_UP, l.temporary_modifiers_state \ l.W.active_modifiers)
     EXCEPT !.is_replaying = FALSE]

\* A faulty pair, which forgets the modifiers: C3 fails with it.
PairWithoutModifiers(event, active_modifiers) ==
    [event |-> event, modifiers |-> {}]

\* (event, set(self.active_modifiers)): the event as it is suspended.
SuspendedPair(event, active_modifiers) ==
    [event |-> event, modifiers |-> active_modifiers]

\* The end of run_sync_hooks: the decision for the event itself.
Decide(W, hooks_decisions, event) ==
    [W EXCEPT
        !.merged = [event |-> event,
                    decisions |-> [i \in DOMAIN hooks_decisions |->
                                      Get(hooks_decisions[i], event, ALLOW)],
                    decision |-> MergedDecision(hooks_decisions, event)],
        !.suspended_event_pairs =
            IF MergedDecision(hooks_decisions, event) = SUSPEND
            THEN Append(@, SuspendedPair(event, W.active_modifiers))
            ELSE @,
        !.decision =
            IF MergedDecision(hooks_decisions, event) = SUSPEND THEN SUPPRESS
            ELSE MergedDecision(hooks_decisions, event)]

\* A faulty replay, which goes through the suspended list from its end: C8
\* fails with it.
ReplayBackwardsAndDecide(W, hooks_decisions, event) ==
    Decide(RestoreModifiers(ReplayLoop([W EXCEPT !.is_replaying = TRUE],
                                       [i \in DOMAIN W.suspended_event_pairs |->
                                           W.suspended_event_pairs[
                                               Len(W.suspended_event_pairs) + 1 - i]],
                                       hooks_decisions, W.active_modifiers)),
           hooks_decisions, event)

\* run_sync_hooks once the hooks have run and left their decisions.
ReplayAndDecide(W, hooks_decisions, event) ==
    Decide(RestoreModifiers(ReplayLoop([W EXCEPT !.is_replaying = TRUE],
                                       W.suspended_event_pairs, hooks_decisions,
                                       W.active_modifiers)),
           hooks_decisions, event)

\* `hooks_decisions or [{}]`, unless an exception left a hook.
AfterHooks(r, event) ==
    IF r.W.raised THEN [r.W EXCEPT !.decision = "raised"]
    ELSE ReplayAndDecide(r.W,
                         IF r.hooks_decisions = <<>> THEN << <<>> >> ELSE r.hooks_decisions,
                         event)

\* _KeyboardListener.run_sync_hooks; the decision is left in W.decision
\* ("raised" when an exception left a hook).
run_sync_hooks(W, event, cb) ==
    AfterHooks(RunHooks([W |-> [W EXCEPT !.evaluated = <<>>], hooks_decisions |-> <<>>],
                        W.suppressing_hooks, event, cb),
               event)

\* async_events_queue.put(event): the queue has no maximum size, so put
\* returns at once.
put(W, event) ==
    [W EXCEPT !.async_events_queue = Append(@, event), !.unfinished_tasks = @ + 1]

\* Part of a faulty process_sync_event.
QueueIfAllowed(W, event) == IF W.decision = ALLOW THEN put(W, event) ELSE W

\* A faulty process_sync_event, which queues an event once the hooks have
\* run, and only when it is allowed: C14 fails with it.
process_sync_event_queue_allowed(W, event, cb) ==
    IF W.is_replaying THEN process_sync_event_replaying(W, event)
    ELSE Return(QueueIfAllowed(run_sync_hooks(
                  [W EXCEPT !.physically_pressed_keys = PhysicalUpdate(@, event),
                            !.active_modifiers = ModifierUpdate(@, event)],
                  event, cb), event),
                event)

\* _KeyboardListener.process_sync_event; what it returns is left in W.ret.
process_sync_event(W, event, cb) ==
    IF W.is_replaying THEN process_sync_event_replaying(W, event)
    ELSE Return(run_sync_hooks(
                  put([W EXCEPT !.physically_pressed_keys = PhysicalUpdate(@, event),
                                !.active_modifiers = ModifierUpdate(@, event)],
                      event),
                  event, cb),
                event)

(***************************************************************************)
(* Registration.  The registry is the record of suppressing_hooks,         *)
(* nonsuppressing_hooks and hook_disable_by_id; a disable closure is named *)
(* by its hook.                                                            *)
(***************************************************************************)
\* The ids a hook is registered under: hook() gives [callback], hook_key()
\* [key, callback], add_hotkey() [callback, hotkey].
IdsOf(h) ==
    CASE Hooks[h].kind = "simple" -> {<<"callback", h>>}
      [] Hooks[h].kind = "key" -> {<<"key", Hooks[h].scan_codes>>, <<"callback", h>>}
      [] Hooks[h].kind = "hotkey" -> {<<"callback", h>>, <<"hotkey", Hooks[h].hotkey>>}

\* What disable_hook_by_id can be called with: the ids of the hooks, the
\* hooks themselves (which have a disable attribute) and an id nothing was
\* registered under.
AllIds ==
    UNION {IdsOf(h): h \in HookIds} \cup {<<"handle", h>>: h \in HookIds}
        \cup {<<"missing", "id">>}

\* hooks_list of register: the list a hook was registered to.
Suppresses(sc, h) == h \in Range(sc.hooks)

\* enable() of register.
enable(R, sc, h) ==
    [suppressing_hooks |-> IF Suppresses(sc, h) THEN Append(R.suppressing_hooks, h)
                           ELSE R.suppressing_hooks,
     nonsuppressing_hooks |-> IF Suppresses(sc, h) THEN R.nonsuppressing_hooks
                              ELSE Append(R.nonsuppressing_hooks, h),
     hook_disable_by_id |-> [id \in AllIds |->
                                IF id \in IdsOf(h) THEN R.hook_disable_by_id[id] \cup {h}
                                ELSE R.hook_disable_by_id[id]]]

\* disable() of register.
disable(R, sc, h) ==
    [suppressing_hooks |-> IF Suppresses(sc, h) THEN RemoveFirst(R.suppressing_hooks, h)
                           ELSE R.suppressing_hooks,
     nonsuppressing_hooks |-> IF Suppresses(sc, h) THEN R.nonsuppressing_hooks
                              ELSE RemoveFirst(R.nonsuppressing_hooks, h),
     hook_disable_by_id |-> [id \in AllIds |->
                                IF id \in IdsOf(h) THEN R.hook_disable_by_id[id] \ {h}
                                ELSE R.hook_disable_by_id[id]]]

RECURSIVE DisableAll(_, _, _)
\* for hook_disable in list(...): hook_disable().  The closures of a set are
\* those of different hooks, so the order they are called in does not matter.
DisableAll(R, sc, closures) ==
    IF closures = {} THEN R
    ELSE DisableAll(disable(R, sc, CHOOSE h \in closures: TRUE), sc,
                    closures \ {CHOOSE h \in closures: TRUE})

\* _KeyboardListener.disable_hook_by_id
disable_hook_by_id(R, sc, hook_id) ==
    IF hook_id[1] = "handle" THEN disable(R, sc, hook_id[2])
    ELSE DisableAll(R, sc, R.hook_disable_by_id[hook_id])

RECURSIVE RegisterAll(_, _, _)
\* register() called for each hook of the list, in order.
RegisterAll(R, sc, hooks) ==
    IF hooks = <<>> THEN R
    ELSE RegisterAll(enable(R, sc, Head(hooks)), sc, Tail(hooks))

\* The registry of a new listener.
EmptyRegistry ==
    [suppressing_hooks |-> <<>>, nonsuppressing_hooks |-> <<>>,
     hook_disable_by_id |-> [id \in AllIds |-> {}]]

(***************************************************************************)
(* KeyboardEvent as an object with all its attributes, and its JSON form.  *)
(* A Python value is a record of its type and, by type, its characters, its *)
(* number or its truth value; a string is the sequence of its characters.  *)
(***************************************************************************)
Py(t, s, n, b) == [t |-> t, s |-> s, n |-> n, b |-> b]
PyNone == Py("None", <<>>, 0, FALSE)
PyStr(s) == Py("str", s, 0, FALSE)
PyNum(n) == Py("int", <<>>, n, FALSE)
PyBool(b) == Py("bool", <<>>, 0, b)
\* The empty list.
PyList == Py("list", <<>>, 0, FALSE)

\* bool(v)
Truthy(v) ==
    CASE v.t = "None" -> FALSE
      [] v.t = "str" -> v.s # <<>>
      [] v.t = "int" -> v.n # 0
      [] v.t = "bool" -> v.b
      [] v.t = "list" -> FALSE

\* str.lower() on the letters of the names below.
LowerCase ==
    [c \in {"A", "D", "E", "S", "C"} |->
        CASE c = "A" -> "a" [] c = "D" -> "d" [] c = "E" -> "e" [] c = "S" -> "s" [] c = "C" -> "c"]

\* name.lower()
lower(name) ==
    [i \in DOMAIN name |-> IF name[i] \in DOMAIN LowerCase THEN LowerCase[name[i]] ELSE name[i]]

\* name.replace("_", " ")
replace_underscores(name) == [i \in DOMAIN name |-> IF name[i] = "_" THEN " " ELSE name[i]]

\* The entries of canonical_names the names below can meet.
canonical_names ==
    [k \in {<<"e", "s", "c", "a", "p", "e">>, <<"d", "e", "l">>, <<" ">>,
            <<"n", "o", "b", "r", "e", "a", "k", "s", "p", "a", "c", "e">>} |->
        CASE k = <<"e", "s", "c", "a", "p", "e">> -> <<"e", "s", "c">>
          [] k = <<"d", "e", "l">> -> <<"d", "e", "l", "e", "t", "e">>
          [] k = <<" ">> -> <<"s", "p", "a", "c", "e">>
          [] OTHER -> <<" ">>]

\* canonical_names.get(name, name)
Canonical(name) == IF name \in DOMAIN canonical_names THEN canonical_names[name] ELSE name

\* The name with its underscores replaced, unless it is "_".
Cleaned(name) == IF name # <<"_">> THEN replace_underscores(name) ELSE name

\* normalize_name, of a non-empty string.
normalize_name(name) == Canonical(Cleaned(IF Len(name) > 1 THEN lower(name) ELSE name))

\* The parameters of KeyboardEvent.__init__ and the ones with no default.
Parameters ==
    {"event_type", "scan_code", "name", "time", "device", "modifiers", "is_numpad", "char"}
Required == {"event_type", "scan_code"}

\* The defaults of KeyboardEvent.__init__.
Default(param) == IF param = "char" THEN PyStr(<<>>) ELSE PyNone

\* KeyboardEvent.__init__ called with the keyword arguments kw; the time is
\* always given here.  The attribute name is left as the class has it (None)
\* unless the name given is truthy.
KeyboardEventInit(kw) ==
    IF ~(DOMAIN kw \subseteq Parameters /\ Required \subseteq DOMAIN kw)
    THEN [a \in Parameters |-> Py("TypeError", <<>>, 0, FALSE)]
    ELSE [a \in Parameters |->
            CASE a = "name" -> IF "name" \in DOMAIN kw /\ Truthy(kw.name)
                               THEN PyStr(normalize_name(kw.name.s)) ELSE PyNone
              [] a = "modifiers" -> IF "modifiers" \in DOMAIN kw /\ Truthy(kw.modifiers)
                                    THEN kw.modifiers ELSE PyList
              [] OTHER -> IF a \in DOMAIN kw THEN kw[a] ELSE Default(a)]

\* json.dumps of a value: null, a string, a number, true or false, [].
json_dumps(v) ==
    CASE v.t = "None" -> Py("null", <<>>, 0, FALSE)
      [] v.t = "str" -> Py("string", v.s, 0, FALSE)
      [] v.t = "int" -> Py("number", <<>>, v.n, FALSE)
      [] v.t = "bool" -> Py(IF v.b THEN "true" ELSE "false", <<>>, 0, FALSE)
      [] v.t = "list" -> Py("array", <<>>, 0, FALSE)

\* json.loads of a value.
json_loads(j) ==
    CASE j.t = "null" -> PyNone
      [] j.t = "string" -> PyStr(j.s)
      [] j.t = "number" -> PyNum(j.n)
      [] j.t = "true" -> PyBool(TRUE)
      [] j.t = "false" -> PyBool(FALSE)
      [] j.t = "array" -> PyList

\* The attributes to_json writes.
JsonAttrs ==
    {"event_type", "scan_code", "name", "time", "device", "is_numpad", "modifiers", "char"}

\* KeyboardEvent.to_json: the JSON object of the attributes.
to_json(e) == [a \in JsonAttrs |-> json_dumps(e[a])]

\* KeyboardEvent(**json.loads(text))
from_json(j) == KeyboardEventInit([a \in DOMAIN j |-> json_loads(j[a])])

\* KeyboardEvent.__eq__
EventEq(e, other) ==
    /\ e.event_type = other.event_type
    /\ e.time = other.time
    /\ e.device = other.device
    /\ e.scan_code = other.scan_code
    /\ e.name = other.name

\* The names events are made with: None, "", "a", "A", "_", "ESC", "escape",
\* "Del", "a_c", " ", "space" and "nobreakspace".
Names ==
    {PyNone, PyStr(<<>>), PyStr(<<"a">>), PyStr(<<"A">>), PyStr(<<"_">>),
     PyStr(<<"E", "S", "C">>), PyStr(<<"e", "s", "c", "a", "p", "e">>),
     PyStr(<<"D", "e", "l">>), PyStr(<<"a", "_", "c">>), PyStr(<<" ">>),
     PyStr(<<"s", "p", "a", "c", "e">>),
     PyStr(<<"n", "o", "b", "r", "e", "a", "k", "s", "p", "a", "c", "e">>)}

\* The keyword arguments events are made with.  Nothing looks into the
\* event type, which is kept as the one-piece string KEY_DOWN or KEY_UP.
EventArguments ==
    {[event_type |-> PyStr(<<t>>), scan_code |-> PyNum(c), name |-> n, time |-> PyNum(at),
      is_numpad |-> k]:
        t \in {KEY_DOWN, KEY_UP}, c \in {0, 1}, n \in Names, at \in {0, 1},
        k \in {PyNone, PyBool(TRUE), PyBool(FALSE)}}

\* Before an event is made: nothing to serialize yet.
NoRoundTrip ==
    [stage |-> "none", original |-> KeyboardEventInit([event_type |-> PyNone, scan_code |-> PyNone]),
     json |-> to_json(KeyboardEventInit([event_type |-> PyNone, scan_code |-> PyNone])),
     parsed |-> KeyboardEventInit([event_type |-> PyNone, scan_code |-> PyNone])]

(***************************************************************************)
(* Scenarios: which hooks are registered (in this order), which keys the   *)
(* keyboard has, how far apart in time two events can be, how many events  *)
(* fewer than MaxEvents are delivered, and whether hooks get disabled.     *)
(***************************************************************************)
Scenario(name, hooks, keys, gaps, slack, disables) ==
    [name |-> name, hooks |-> hooks, keys |-> keys, gaps |-> gaps,
     slack |-> slack, disables |-> disables,
     \* the hooks registered with suppress=False, and whether enable() and
     \* disable_hook_by_id() get called
     nonsuppressing |-> <<>>, registry |-> FALSE,
     \* whether the listener is the module's, which is started, or one the
     \* tests make, which is not and gets its events straight from the tests
     started |-> FALSE,
     \* whether events are serialized and parsed back
     json |-> FALSE,
     \* whether transition tables are built and walked
     table |-> FALSE,
     \* whether restore_state() gets called
     restores |-> FALSE]

Scenarios ==
    {Scenario("none", <<>>, {0, 1, -1}, {1}, 0, FALSE),
     Scenario("allow", <<"allow1", "allow2">>, {0, -1}, {1}, 0, FALSE),
     Scenario("simple", <<"simpleA", "simpleB", "simpleC">>, {0}, {1}, 3, FALSE),
     Scenario("single", <<"hk_a">>, {0, 1}, {1}, 0, FALSE),
     Scenario("ab", <<"hk_ab">>, {0, 1}, {1, Timeout + 1}, 0, FALSE),
     Scenario("edge", <<"hk_ab">>, {0, 1}, {Timeout}, 2, FALSE),
     Scenario("late", <<"hk_rel">>, {0, 1}, {1, Timeout + 1}, 2, FALSE),
     Scenario("reset", <<"hk_a_bc">>, {0, 1}, {1, Timeout + 1}, 1, FALSE),
     Scenario("abmod", <<"hk_ab">>, {0, 1, -1}, {1}, 0, FALSE),
     Scenario("modab", <<"hk_mab">>, {0, 1, -1}, {1}, 0, FALSE),
     Scenario("chord", <<"hk_chord">>, {-1, -2, -3, 0}, {1}, 0, FALSE),
     Scenario("raise", <<"simpleB", "raiser", "hk_a">>, {0}, {1}, 2, FALSE),
     Scenario("disable", <<"hk_ab", "hk_ba">>, {0, 1}, {1}, 0, TRUE),
     [Scenario("registry", <<"hk_a", "hk_a3">>, {0}, {1}, 4, FALSE)
        EXCEPT !.nonsuppressing = <<"listener">>, !.registry = TRUE],
     Scenario("send", <<"hk_send">>, {0}, {1}, 2, FALSE),
     Scenario("release", <<"hk_mrel">>, {0, -1}, {1}, 0, FALSE),
     Scenario("hkraise", <<"hk_raise">>, {0, 1}, {1}, 1, FALSE),
     Scenario("order", <<"hk_a", "hk_rel", "hk_a3">>, {0}, {1}, 1, FALSE),
     Scenario("allowing", <<"hk_ab_any">>, {0, 1}, {1}, 0, FALSE),
     Scenario("combo", <<"hk_combo">>, {0, 1}, {1}, 0, FALSE),
     Scenario("mods", <<"hk_mods">>, {-1, -2}, {1}, 0, FALSE),
     Scenario("key", <<"key02">>, {0, 1, 2}, {1}, 2, FALSE),
     [Scenario("started", <<"allow1">>, {0, -1}, {1}, 3, FALSE)
        EXCEPT !.started = TRUE],
     [Scenario("async", <<>>, {0}, {1}, 3, FALSE)
        EXCEPT !.nonsuppressing = <<"listener">>, !.started = TRUE],
     [Scenario("restore", <<"hk_a">>, {0, 1}, {1}, 2, FALSE) EXCEPT !.restores = TRUE],
     [Scenario("json", <<>>, {}, {1}, 0, FALSE) EXCEPT !.json = TRUE],
     [Scenario("table", <<>>, {}, {1}, 0, FALSE) EXCEPT !.table = TRUE]}

(***************************************************************************)
(* State.                                                                  *)
(***************************************************************************)
VARIABLES
    \* _KeyboardListener
    physically_pressed_keys, logically_pressed_keys, active_modifiers,
    suspended_event_pairs, is_replaying, suppressing_hooks, async_events_queue,
    \* per hook: state, suspended_events, scan_code_releases_to_suppress
    hook_state,
    \* the clock, the events the driver has delivered, and what has been seen
    \* downstream of the driver
    now, delivered, out,
    \* per hook, how often its callback has been called
    calls,
    \* of the last delivery: the hooks run, the calls made under the replaying
    \* guard, the decisions and their merge, and what was returned
    evaluated, guarded, merged, decision, ret, raised,
    \* the scenario, and the disable() calls made: which hook, and when
    scenario, disabled,
    \* _KeyboardListener: the other list of hooks and the closures by id; and
    \* the calls of enable() and disable_hook_by_id() made
    nonsuppressing_hooks, hook_disable_by_id, ops,
    \* the calls of callbacks made so far
    fired,
    \* the events of the keyboard that were delivered while the replaying guard
    \* was set from outside the listener
    bypassed,
    \* _KeyboardListener.flag_running of the current run is set; where each
    \* processing thread started so far is; the events the threads have taken
    \* off the queue, and the queue's count of unfinished tasks
    flag_running, workers, taken, unfinished_tasks,
    \* an event made, its JSON form, and the event made of that
    roundtrip,
    \* a hotkey, the transition table built for it, the inputs looked up in
    \* the table so far and the states they led to
    automaton

\* The registry apart from suppressing_hooks.
registryVars == <<nonsuppressing_hooks, hook_disable_by_id, ops>>

\* The run flag and the processing threads.
threadVars == <<flag_running, workers, taken>>

vars == <<physically_pressed_keys, logically_pressed_keys, active_modifiers,
          suspended_event_pairs, is_replaying, suppressing_hooks, async_events_queue,
          hook_state, now, delivered, out, calls, evaluated, guarded, merged,
          decision, ret, raised, scenario, disabled, registryVars, fired, bypassed, threadVars,
          unfinished_tasks, roundtrip, automaton>>

\* The registry as the record the registration operators work on.
Registry ==
    [suppressing_hooks |-> suppressing_hooks,
     nonsuppressing_hooks |-> nonsuppressing_hooks,
     hook_disable_by_id |-> hook_disable_by_id]

\* The next registry is R.
RegistryBecomes(R) ==
    /\ suppressing_hooks' = R.suppressing_hooks
    /\ nonsuppressing_hooks' = R.nonsuppressing_hooks
    /\ hook_disable_by_id' = R.hook_disable_by_id

\* The state as the record the operators above work on.
World ==
    [physically_pressed_keys |-> physically_pressed_keys,
     logically_pressed_keys |-> logically_pressed_keys,
     active_modifiers |-> active_modifiers,
     suspended_event_pairs |-> suspended_event_pairs,
     is_replaying |-> is_replaying,
     suppressing_hooks |-> suppressing_hooks,
     async_events_queue |-> async_events_queue,
     hook_state |-> hook_state,
     now |-> now, out |-> out, calls |-> calls, evaluated |-> evaluated,
     guarded |-> guarded, merged |-> merged, decision |-> decision, ret |-> ret,
     raised |-> raised, fired |-> fired, unfinished_tasks |-> unfinished_tasks,
     \* the order a set of modifiers is iterated in, which the language leaves
     \* open; it is chosen with every event delivered
     iteration_order |-> SetToSeq(modifier_scan_codes)]

\* The orders a set of the modifiers of the scenario can be iterated in.
IterationOrders ==
    {o \in [1..Cardinality(scenario.keys \cap modifier_scan_codes)
              -> scenario.keys \cap modifier_scan_codes]:
        \A i, j \in DOMAIN o: o[i] = o[j] => i = j}

\* The next state is the world W.
Becomes(W) ==
    /\ physically_pressed_keys' = W.physically_pressed_keys
    /\ logically_pressed_keys' = W.logically_pressed_keys
    /\ active_modifiers' = W.active_modifiers
    /\ suspended_event_pairs' = W.suspended_event_pairs
    /\ is_replaying' = W.is_replaying
    /\ suppressing_hooks' = W.suppressing_hooks
    /\ async_events_queue' = W.async_events_queue
    /\ hook_state' = W.hook_state
    /\ now' = W.now
    /\ out' = W.out
    /\ calls' = W.calls
    /\ evaluated' = W.evaluated
    /\ guarded' = W.guarded
    /\ merged' = W.merged
    /\ decision' = W.decision
    /\ ret' = W.ret
    /\ raised' = W.raised
    /\ fired' = W.fired
    /\ unfinished_tasks' = W.unfinished_tasks

NoMerge == [event |-> KeyboardEvent("none", 0, 0), decisions |-> <<>>, decision |-> "none"]

\* _KeyboardListener.__init__, then the scenario's hooks registered in order.
InitWith(sc) ==
    /\ scenario = sc
    /\ physically_pressed_keys = {}
    /\ logically_pressed_keys = {}
    /\ active_modifiers = {}
    /\ suspended_event_pairs = <<>>
    /\ is_replaying = FALSE
    /\ suppressing_hooks = sc.hooks
    /\ nonsuppressing_hooks = sc.nonsuppressing
    /\ hook_disable_by_id =
           RegisterAll(EmptyRegistry, sc, sc.hooks \o sc.nonsuppressing).hook_disable_by_id
    /\ ops = <<>>
    /\ async_events_queue = <<>>
    /\ hook_state = [id \in HookIds |-> InitialHookState]
    /\ now = 0
    /\ delivered = <<>>
    /\ out = <<>>
    /\ calls = [id \in HookIds |-> 0]
    /\ evaluated = <<>>
    /\ guarded = <<>>
    /\ merged = NoMerge
    /\ decision = "none"
    /\ ret = "none"
    /\ raised = FALSE
    /\ fired = <<>>
    /\ bypassed = <<>>
    /\ unfinished_tasks = 0
    /\ disabled = <<>>
    /\ flag_running = sc.started
    /\ workers = IF sc.started THEN <<"check">> ELSE <<>>
    /\ taken = <<>>
    /\ roundtrip = NoRoundTrip
    /\ automaton = NoAutomaton

Init == \E sc \in Scenarios: InitWith(sc)

\* What the callbacks of the registered hooks hand back, should they be called.
CallbackResults ==
    {cb \in [Range(scenario.hooks) -> {ALLOW, SUSPEND, SUPPRESS, NONE, RAISE, PRESS}]:
        \A id \in Range(scenario.hooks): cb[id] \in Hooks[id].results}

\* The events the keyboard can produce next: a press of any key (a held key
\* repeats), a release of a key that is down.
NextEvents ==
    {KeyboardEvent(t, k, now + g):
        t \in {KEY_DOWN, KEY_UP}, k \in scenario.keys, g \in scenario.gaps}

\* The driver passes the event downstream when True came back.
Passed(W, event) ==
    IF W.ret = "True"
    THEN Seen(W, "pass", event.event_type, event.scan_code, event.time)
    ELSE W

RECURSIVE Echoed(_)
\* The events among the entries that the driver delivered to the listener
\* when a callback sent them.
Echoed(entries) ==
    IF entries = <<>> THEN <<>>
    ELSE IF Head(entries).src = "sent"
    THEN <<KeyboardEvent(Head(entries).event_type, Head(entries).scan_code, Head(entries).at)>>
             \o Echoed(Tail(entries))
    ELSE Echoed(Tail(entries))

RECURSIVE PressedAfter(_, _)
\* The keys that are down after the events, from the keys `down`.
PressedAfter(down, entries) ==
    IF entries = <<>> THEN down
    ELSE PressedAfter(IF Head(entries).event_type = KEY_DOWN
                      THEN down \cup {Head(entries).scan_code}
                      ELSE down \ {Head(entries).scan_code},
                      Tail(entries))

\* The keys that are held down on the keyboard: those the listener has
\* recorded, and what the events it did not record made of them.
HeldKeys == PressedAfter(physically_pressed_keys, bypassed)

\* The driver delivers an event to process_sync_event.
Deliver ==
    /\ Len(delivered) + Len(bypassed) < MaxEvents - scenario.slack
    /\ scenario.started => flag_running
    /\ \E event \in NextEvents, cb \in CallbackResults, iteration_order \in IterationOrders:
        /\ event.event_type = KEY_UP => event.scan_code \in HeldKeys
        /\ Becomes(Passed(process_sync_event(
                            [World EXCEPT !.now = event.time, !.guarded = <<>>,
                                          !.raised = FALSE, !.merged = NoMerge,
                                          !.iteration_order = iteration_order],
                            event, cb),
                          event))
        /\ delivered' = IF is_replaying THEN delivered
                        ELSE Append(delivered, event)
                                 \o Echoed(SubSeq(out', Len(out) + 1, Len(out')))
        /\ bypassed' = IF is_replaying THEN Append(bypassed, event) ELSE bypassed
    /\ UNCHANGED <<scenario, disabled, registryVars, threadVars, roundtrip, automaton>>

\* restore_state(scan_codes) called from another thread: it sets
\* _listener.is_replaying and then reads _pressed_events_lock, a name the
\* module does not define, so that NameError ends the call with the guard
\* still set.
RestoreState ==
    /\ scenario.restores
    /\ is_replaying' = TRUE
    /\ UNCHANGED <<physically_pressed_keys, logically_pressed_keys, active_modifiers,
                   suspended_event_pairs, suppressing_hooks, async_events_queue,
                   hook_state, now, delivered, out, calls, evaluated, guarded, merged,
                   decision, ret, raised, scenario, disabled, registryVars, fired,
                   bypassed, threadVars, unfinished_tasks, roundtrip, automaton>>

\* hook_obj.disable() of register: the hook leaves the list it is in, and its
\* closure the sets of its ids.
Disable ==
    /\ scenario.disables
    /\ Len(disabled) < MaxDisables
    /\ \E id \in Range(scenario.hooks):
        /\ RegistryBecomes(disable(Registry, scenario, id))
        /\ disabled' = Append(disabled, [id |-> id, now |-> now])
    /\ UNCHANGED <<physically_pressed_keys, logically_pressed_keys, active_modifiers,
                   suspended_event_pairs, is_replaying, async_events_queue, hook_state,
                   now, delivered, out, calls, evaluated, guarded, merged, decision,
                   ret, raised, scenario, ops, fired, threadVars, bypassed, unfinished_tasks,
                   roundtrip, automaton>>

\* What the registry operations leave alone.
UnchangedByRegistry ==
    UNCHANGED <<physically_pressed_keys, logically_pressed_keys, active_modifiers,
                suspended_event_pairs, is_replaying, async_events_queue, hook_state,
                now, delivered, out, calls, evaluated, guarded, merged, decision,
                ret, raised, scenario, disabled, fired, threadVars, bypassed, unfinished_tasks,
                roundtrip, automaton>>

\* hook_obj.enable() called on a hook register() returned.
Enable ==
    /\ scenario.registry
    /\ Len(ops) < MaxOps
    /\ \E h \in Range(scenario.hooks) \cup Range(scenario.nonsuppressing):
        /\ RegistryBecomes(enable(Registry, scenario, h))
        /\ ops' = Append(ops, [op |-> "enable", id |-> <<"handle", h>>, before |-> Registry])
    /\ UnchangedByRegistry

\* The ids disable_hook_by_id is called with in the scenario.
ScenarioIds ==
    {id \in AllIds: id[1] = "missing"
                    \/ \E h \in Range(scenario.hooks) \cup Range(scenario.nonsuppressing):
                           id \in IdsOf(h) \/ id = <<"handle", h>>}

\* _listener.disable_hook_by_id(hook_id)
DisableById ==
    /\ scenario.registry
    /\ Len(ops) < MaxOps
    /\ \E id \in ScenarioIds:
        /\ RegistryBecomes(disable_hook_by_id(Registry, scenario, id))
        /\ ops' = Append(ops, [op |-> "disable_hook_by_id", id |-> id, before |-> Registry])
    /\ UnchangedByRegistry

\* What the threads' steps leave alone.
UnchangedByThreads ==
    UNCHANGED <<physically_pressed_keys, logically_pressed_keys, active_modifiers,
                suspended_event_pairs, is_replaying, suppressing_hooks, hook_state,
                now, delivered, out, calls, evaluated, guarded, merged, decision,
                ret, raised, scenario, disabled, registryVars, fired, bypassed, roundtrip,
                automaton>>

\* _KeyboardListener.stop: the flag the current processing thread holds is
\* cleared and the OS listener stopped; the pressed keys are left as they are.
Stop ==
    /\ scenario.started
    /\ flag_running
    /\ Len(workers) <= MaxStops
    /\ flag_running' = FALSE
    /\ UNCHANGED <<workers, taken, async_events_queue, unfinished_tasks>>
    /\ UnchangedByThreads

\* _KeyboardListener.start: the flag is set and a new processing thread made.
Start ==
    /\ scenario.started
    /\ ~flag_running
    /\ flag_running' = TRUE
    /\ workers' = Append(workers, "check")
    /\ UNCHANGED <<taken, async_events_queue, unfinished_tasks>>
    /\ UnchangedByThreads

\* A faulty test, of the flag the listener has now in place of the flag the
\* thread was started with: C35 fails with it.
FlagOfListener(w) == flag_running

\* The flag processing thread w was started with is set: it is the flag of
\* the current run, and w is the thread of that run.
FlagOf(w) == flag_running /\ w = Len(workers)

\* process_async_queue, `while flag_running.is_set()`: the thread goes on to
\* wait for an event, or returns.
WorkerCheck ==
    /\ \E w \in DOMAIN workers:
        /\ workers[w] = "check"
        /\ workers' = [workers EXCEPT ![w] = IF FlagOf(w) THEN "get" ELSE "returned"]
    /\ UNCHANGED <<flag_running, taken, async_events_queue, unfinished_tasks>>
    /\ UnchangedByThreads

\* process_async_queue, get(timeout=3) with nothing queued: queue.Empty, and
\* the loop goes on.
WorkerTimeout ==
    /\ async_events_queue = <<>>
    /\ \E w \in DOMAIN workers:
        /\ workers[w] = "get"
        /\ workers' = [workers EXCEPT ![w] = "check"]
    /\ UNCHANGED <<flag_running, taken, async_events_queue, unfinished_tasks>>
    /\ UnchangedByThreads

\* An argument that is a set of the listener: the object itself (live), as in
\* `self.active_modifiers`, and not a copy of it, as `set(self.active_modifiers)`
\* would be.  `value` is what the set holds when the argument is evaluated.
TheSet(name, value) == [live |-> TRUE, name |-> name, value |-> value]

\* What the processing thread passes to process_event after the event: the
\* listener's own physically_pressed_keys and active_modifiers.
WorkerArguments ==
    <<TheSet("physically_pressed_keys", physically_pressed_keys),
      TheSet("active_modifiers", active_modifiers)>>

\* process_async_queue, the rest of the loop: the thread takes the first
\* event off the queue and calls process_event of the first non-suppressing
\* hook with three arguments where four are needed, which raises TypeError
\* and ends the thread; with no such hook it calls task_done().
WorkerGet ==
    /\ async_events_queue # <<>>
    /\ \E w \in DOMAIN workers:
        /\ workers[w] = "get"
        /\ taken' = Append(taken, [event |-> Head(async_events_queue), by |-> w,
                                   hooks |-> nonsuppressing_hooks,
                                   arguments |-> WorkerArguments])
        /\ async_events_queue' = Tail(async_events_queue)
        /\ IF nonsuppressing_hooks # <<>>
           THEN workers' = [workers EXCEPT ![w] = "TypeError"]
                /\ UNCHANGED unfinished_tasks
           ELSE workers' = [workers EXCEPT ![w] = "check"]
                /\ unfinished_tasks' = unfinished_tasks - 1
    /\ UNCHANGED flag_running
    /\ UnchangedByThreads

\* What making, serializing and parsing an event leave alone: the listener.
UnchangedByJson ==
    UNCHANGED <<physically_pressed_keys, logically_pressed_keys, active_modifiers,
                suspended_event_pairs, is_replaying, suppressing_hooks, async_events_queue,
                hook_state, now, delivered, out, calls, evaluated, guarded, merged,
                decision, ret, raised, scenario, disabled, registryVars, fired,
                threadVars, bypassed, unfinished_tasks, automaton>>

\* event = KeyboardEvent(event_type, scan_code, name, time, is_numpad=...)
MakeEvent ==
    /\ scenario.json
    /\ roundtrip.stage = "none"
    /\ \E kw \in EventArguments:
        roundtrip' = [roundtrip EXCEPT !.stage = "made", !.original = KeyboardEventInit(kw)]
    /\ UnchangedByJson

\* text = event.to_json()
ToJson ==
    /\ roundtrip.stage = "made"
    /\ roundtrip' = [roundtrip EXCEPT !.stage = "written", !.json = to_json(roundtrip.original)]
    /\ UnchangedByJson

\* KeyboardEvent(**json.loads(text))
FromJson ==
    /\ roundtrip.stage = "written"
    /\ roundtrip' = [roundtrip EXCEPT !.stage = "parsed", !.parsed = from_json(roundtrip.json)]
    /\ UnchangedByJson

\* What building and walking a transition table leave alone: the listener
\* and the events.
UnchangedByTable ==
    UNCHANGED <<physically_pressed_keys, logically_pressed_keys, active_modifiers,
                suspended_event_pairs, is_replaying, suppressing_hooks, async_events_queue,
                hook_state, now, delivered, out, calls, evaluated, guarded, merged,
                decision, ret, raised, scenario, disabled, registryVars, fired,
                threadVars, bypassed, unfinished_tasks, roundtrip>>

\* _HotkeyHook.__init__: self.transitions = build_hotkey_transition_table(hotkey),
\* and self.state = 0.
BuildTable ==
    /\ scenario.table
    /\ automaton.stage = "none"
    /\ \E hotkey \in TableHotkeys:
        automaton' = [NoAutomaton EXCEPT !.stage = "built", !.hotkey = hotkey,
                                         !.transitions = build_hotkey_transition_table(hotkey)]
    /\ UnchangedByTable

\* The state an input leaves the hook in: len(steps) is left for 0 when the
\* callback has run.
StateAfter(hotkey, target) == IF target = Len(hotkey) THEN 0 ELSE target

\* process_event's use of the table for one input:
\* self.state = self.transitions[self.state, input_scan_codes]; when the state
\* is len(steps) the callback runs and the state is 0 again.
Transition ==
    /\ automaton.stage = "built"
    /\ Len(automaton.inputs) < MaxInputs
    /\ \E input_scan_codes \in Inputs(automaton.hotkey):
        automaton' = [automaton EXCEPT
            !.inputs = Append(@, input_scan_codes),
            !.targets = Append(@, Lookup(automaton.transitions, automaton.state,
                                         input_scan_codes)),
            !.state = StateAfter(automaton.hotkey,
                                 Lookup(automaton.transitions, automaton.state,
                                        input_scan_codes))]
    /\ UnchangedByTable

\* The steps of the processing threads.
Worker == WorkerCheck \/ WorkerTimeout \/ WorkerGet

Next ==
    \/ Deliver \/ Disable \/ Enable \/ DisableById
    \/ RestoreState
    \/ Stop \/ Start \/ WorkerCheck \/ WorkerTimeout \/ WorkerGet
    \/ MakeEvent \/ ToJson \/ FromJson
    \/ BuildTable \/ Transition

Spec == Init /\ [][Next]_vars

\* The processing threads are daemon threads the interpreter keeps scheduling:
\* a step one of them can take is taken in the end.
FairSpec == Spec /\ WF_vars(WorkerCheck) /\ WF_vars(WorkerTimeout) /\ WF_vars(WorkerGet)
(***************************************************************************)
(* What the history says: the true state of the keyboard, and the entry    *)
(* downstream of an event the driver passed.                               *)
(***************************************************************************)
\* The keys that are down after the events d: the last event of the key is a press.
TruePressed(d) ==
    {k \in {d[i].scan_code: i \in DOMAIN d}:
        \E i \in DOMAIN d:
            /\ d[i].scan_code = k
            /\ d[i].event_type = KEY_DOWN
            /\ \A j \in (i+1)..Len(d): d[j].scan_code # k}

\* The modifiers that are down after the events d.
TrueModifiers(d) == TruePressed(d) \cap modifier_scan_codes

\* The entry downstream of a delivered event that was passed.
PassEntry(e) ==
    [src |-> "pass", event_type |-> e.event_type, scan_code |-> e.scan_code,
     time |-> e.time, at |-> e.time]

\* The delivered events as the entries downstream show them when all are passed.
PassAll(d) == [i \in DOMAIN d |-> PassEntry(d[i])]

\* The positions of delivered at which key k goes down.
PressesOf(k) ==
    {i \in DOMAIN delivered:
        delivered[i].scan_code = k /\ delivered[i].event_type = KEY_DOWN}

\* The permutations of 1..n.
Permutations1(n) == {f \in [1..n -> 1..n]: \A i, j \in 1..n: f[i] = f[j] => i = j}

(***************************************************************************)
(* Claims.                                                                 *)
(***************************************************************************)
\* C1: with no suppressing hook, or with hooks that only ever answer Allow,
\* what is seen downstream is exactly the delivered sequence: every event is
\* allowed (True is returned), nothing is suspended, dropped, duplicated,
\* reordered or injected.
C1_AllowOnlyPassesEverything ==
    scenario.name \in {"none", "allow"} =>
        /\ out = PassAll(delivered)
        /\ suspended_event_pairs = <<>>
        /\ ret \in {"none", "True"}

\* C1 witness: allow-only hooks have run on presses and releases, all passed.
C1_Witness ==
    /\ scenario.name = "allow"
    /\ Len(delivered) >= 4
    /\ calls["allow1"] >= 4
    /\ \E i \in DOMAIN out: out[i].event_type = KEY_UP
    /\ out = PassAll(delivered)

\* C2: the merged decision for the event is Suppress if a hook says Suppress,
\* else Suspend if a hook says Suspend, else Allow (an event missing from a
\* hook's map counts as Allow), whatever the order of the hooks and however
\* they are grouped.
C2_MergeIsMaximum ==
    merged.decision # "none" =>
        LET ds == merged.decisions
            n == Len(ds)
        IN /\ merged.decision =
                  (IF \E i \in 1..n: ds[i] = SUPPRESS THEN SUPPRESS
                   ELSE IF \E i \in 1..n: ds[i] = SUSPEND THEN SUSPEND
                   ELSE ALLOW)
           /\ \A f \in Permutations1(n):
                  MaxFrom(ds[f[1]], [i \in 1..(n-1) |-> ds[f[i+1]]]) = merged.decision
           /\ \A k \in 1..(n-1):
                  MaxFrom(MaxFrom(ds[1], SubSeq(ds, 2, k)),
                          <<MaxFrom(ds[k+1], SubSeq(ds, k+2, n))>>) = merged.decision

\* C2 witness: three hooks answered Allow, Suspend, Allow and the merge is Suspend.
C2_Witness ==
    /\ merged.decisions = <<ALLOW, SUSPEND, ALLOW>>
    /\ merged.decision = SUSPEND

\* C3: only True or False goes back to the driver; when the merged decision is
\* Suspend the event is put last in the suspended list and False is returned;
\* every suspended event is stored with the modifiers that were down when it
\* was delivered.
C3_SuspendIsNeverReturned ==
    /\ decision \in {"none", "raised", ALLOW, SUPPRESS}
    /\ ret \in {"none", "raised", "True", "False"}
    /\ merged.decision = SUSPEND =>
        /\ ret = "False"
        /\ suspended_event_pairs # <<>>
        /\ suspended_event_pairs[Len(suspended_event_pairs)] =
               [event |-> merged.event, modifiers |-> active_modifiers]
    /\ \A i \in DOMAIN suspended_event_pairs:
           \E k \in DOMAIN delivered:
               /\ delivered[k] = suspended_event_pairs[i].event
               /\ suspended_event_pairs[i].modifiers = TrueModifiers(SubSeq(delivered, 1, k))

\* C3 witness: an event was suspended while a modifier was down, and the
\* modifier has been released since.
C3_Witness ==
    /\ ret = "False"
    /\ \E i \in DOMAIN suspended_event_pairs:
           /\ suspended_event_pairs[i].modifiers # {}
           /\ suspended_event_pairs[i].modifiers # active_modifiers

\* C4 as claimed: a call made while the replaying guard is set returns True
\* and leaves every field of the listener as it was, logically_pressed_keys
\* included, and runs no hook.
C4_GuardedCallChangesNothing ==
    \A i \in DOMAIN guarded:
        /\ guarded[i].ret = "True"
        /\ guarded[i].after = guarded[i].before

\* C4 amended: a call made while the replaying guard is set returns True,
\* runs no hook and leaves physically_pressed_keys, active_modifiers, the
\* suspended list, the async queue and the hooks' state as they were; it does
\* update logically_pressed_keys with the event, as for any allowed event.
C4_GuardedCallOnlyUpdatesLogical ==
    \A i \in DOMAIN guarded:
        LET g == guarded[i]
        IN /\ g.ret = "True"
           /\ g.after.physically_pressed_keys = g.before.physically_pressed_keys
           /\ g.after.active_modifiers = g.before.active_modifiers
           /\ g.after.suspended_event_pairs = g.before.suspended_event_pairs
           /\ g.after.async_events_queue = g.before.async_events_queue
           /\ g.after.hook_state = g.before.hook_state
           /\ g.after.calls = g.before.calls
           /\ g.after.logically_pressed_keys =
                  (IF g.event.event_type = KEY_DOWN
                   THEN g.before.logically_pressed_keys \cup {g.event.scan_code}
                   ELSE g.before.logically_pressed_keys \ {g.event.scan_code})

\* C4 witness: during a replay an echoed press was processed under the guard
\* while its key was physically up, and it became logically pressed.
C4_Witness ==
    \E i \in DOMAIN guarded:
        /\ guarded[i].event.event_type = KEY_DOWN
        /\ guarded[i].event.scan_code \notin guarded[i].before.physically_pressed_keys
        /\ guarded[i].event.scan_code \notin guarded[i].before.logically_pressed_keys
        /\ guarded[i].event.scan_code \in guarded[i].after.logically_pressed_keys

\* C5: with the one-key hotkey 0 registered alone (its callback not returning
\* Allow), the callback has been called once per press of key 0, no event of
\* key 0 has been passed downstream, and the events of every other key have
\* all been passed, in order and unchanged.
C5_SingleKeyHotkey ==
    scenario.name = "single" =>
        /\ calls["hk_a"] = Cardinality(PressesOf(0))
        /\ out = PassAll(SelectSeq(delivered, LAMBDA e: e.scan_code # 0))

\* C5 witness: key 1 pressed and released, then key 0 pressed and released.
C5_Witness ==
    /\ scenario.name = "single"
    /\ Len(delivered) = 4
    /\ [i \in 1..4 |-> <<delivered[i].event_type, delivered[i].scan_code>>] =
           <<<<KEY_DOWN, 1>>, <<KEY_UP, 1>>, <<KEY_DOWN, 0>>, <<KEY_UP, 0>>>>
    /\ calls["hk_a"] = 1
    /\ Len(out) = 2

\* The delivered events are a press of key 0, perhaps its release, and then a
\* press of key 1.
TypedAThenB ==
    /\ Len(delivered) \in {2, 3}
    /\ delivered[1].event_type = KEY_DOWN /\ delivered[1].scan_code = 0
    /\ Len(delivered) = 3 => delivered[2].event_type = KEY_UP /\ delivered[2].scan_code = 0
    /\ delivered[Len(delivered)].event_type = KEY_DOWN
    /\ delivered[Len(delivered)].scan_code = 1

\* The time between the last two delivered events.
LastGap == delivered[Len(delivered)].time - delivered[Len(delivered) - 1].time

\* The entry downstream of a delivered event that was replayed while the
\* event delivered at time `at` was processed.
ReplayEntry(e, at) ==
    [src |-> "replay", event_type |-> e.event_type, scan_code |-> e.scan_code,
     time |-> e.time, at |-> at]

\* C6: for the hotkey "0, 1" with a timeout: when the press of 1 comes less
\* than the timeout after the last suspended event of 0, the callback has been
\* called once (and nothing was passed downstream); when it comes more than
\* the timeout later, the callback has not been called and the suspended
\* events of 0 have been replayed in their order, before the press of 1.
C6_TwoStepTimeout ==
    (scenario.name = "ab" /\ TypedAThenB) =>
        /\ LastGap < Timeout => (calls["hk_ab"] = 1 /\ out = <<>>)
        /\ LastGap > Timeout =>
            /\ calls["hk_ab"] = 0
            /\ out = [i \in 1..(Len(delivered) - 1) |->
                         ReplayEntry(delivered[i], now)]
                     \o <<PassEntry(delivered[Len(delivered)])>>

\* C6 witness: 0 pressed and released, 1 pressed after the timeout, and the
\* press and release of 0 replayed.
C6_Witness ==
    /\ scenario.name = "ab"
    /\ TypedAThenB
    /\ Len(delivered) = 3
    /\ LastGap > Timeout
    /\ Len(out) = 3
    /\ out[1].src = "replay" /\ out[2].src = "replay"

\* The positions of delivered at which key 0 goes down while exactly the
\* modifiers -2 and -1 are down.
ChordPresses ==
    {i \in PressesOf(0): TrueModifiers(SubSeq(delivered, 1, i)) = {-2, -1}}

\* C7: for the hotkey -2+-1+0 (two modifiers and a main key): the callback has
\* been called once for every press of 0 made while exactly the two modifiers
\* were down, in whichever order they went down, and for no other event; as
\* long as it has not been called, every event has been passed downstream.
C7_ChordWithModifiers ==
    scenario.name = "chord" =>
        /\ calls["hk_chord"] = Cardinality(ChordPresses)
        /\ ChordPresses = {} =>
               (out = PassAll(delivered) /\ suspended_event_pairs = <<>>)

\* C7 witness: -1 went down before -2, then 0, and the callback ran once.
C7_Witness ==
    /\ scenario.name = "chord"
    /\ Len(delivered) = 3
    /\ [i \in 1..3 |-> <<delivered[i].event_type, delivered[i].scan_code>>] =
           <<<<KEY_DOWN, -1>>, <<KEY_DOWN, -2>>, <<KEY_DOWN, 0>>>>
    /\ calls["hk_chord"] = 1
    /\ ret = "False"

\* C8: the events replayed while one event is processed are injected in the
\* order in which they were suspended (the order of their delivery), and all
\* of them before the event that resolved them is passed downstream.
C8_ReplayKeepsOrder ==
    \A i, j \in DOMAIN out:
        (out[i].at = out[j].at /\ out[i].src = "replay") =>
            /\ (out[j].src = "replay" /\ out[i].time < out[j].time) => i < j
            /\ out[j].src = "pass" => i < j

\* C8 witness: two suspended events were replayed in one pass, and the event
\* that resolved them was passed.
C8_Witness ==
    \E i, j, k \in DOMAIN out:
        /\ i < j /\ j < k
        /\ out[i].src = "replay" /\ out[j].src = "replay" /\ out[k].src = "pass"
        /\ out[i].at = out[k].at /\ out[j].at = out[k].at
        /\ out[i].time < out[j].time

\* C9 as claimed: when a callback raised while an event was processed, every
\* registered suppressing hook was still run for the event and the event got
\* its verdict.
C9_RaisingHookIsIsolated ==
    raised =>
        /\ evaluated = suppressing_hooks
        /\ ret \in {"True", "False"}

\* An event of the suspended list that no registered hook holds any more.
HeldByNoHook(pair) ==
    /\ disabled # <<>>
    /\ \A id \in Range(suppressing_hooks):
           pair.event \notin Range(hook_state[id].suspended_events)

RegisteredUnder(id) == IF id[1] = "handle" THEN {id[2]} ELSE hook_disable_by_id[id]

\* The step is a call disable_hook_by_id(id).
CallsDisableById(id) ==
    ops' = Append(ops, [op |-> "disable_hook_by_id", id |-> id, before |-> Registry])

\* What C11 says of a call disable_hook_by_id(id): the hooks registered under
\* the id are in no list any more and under no id, the other hooks are where
\* they were, no hook's state has changed, and a second call changes nothing.
RemovesExactlyTheHooksOf(id) ==
    /\ suppressing_hooks' =
           SelectSeq(suppressing_hooks, LAMBDA h: h \notin RegisteredUnder(id))
    /\ nonsuppressing_hooks' =
           SelectSeq(nonsuppressing_hooks, LAMBDA h: h \notin RegisteredUnder(id))
    /\ \A i \in AllIds: hook_disable_by_id'[i] = hook_disable_by_id[i] \ RegisteredUnder(id)
    /\ hook_state' = hook_state
    /\ disable_hook_by_id(Registry', scenario, id) = Registry'

\* C11 as claimed: disable_hook_by_id(id) removes from the lists of hooks
\* exactly the hooks registered under the id (by any of their ids, or by the
\* hook itself; none for an id nothing is registered under), leaves the other
\* hooks and every hook's state as they were, and is a no-op when repeated.
C11_DisableByIdRemovesTheHooks ==
    [][\A id \in AllIds: CallsDisableById(id) => RemovesExactlyTheHooksOf(id)]_vars

\* No hook is in a list twice: enable() was not called on a hook that was
\* enabled already.
EnabledOnce ==
    /\ \A i, j \in DOMAIN suppressing_hooks:
           suppressing_hooks[i] = suppressing_hooks[j] => i = j
    /\ \A i, j \in DOMAIN nonsuppressing_hooks:
           nonsuppressing_hooks[i] = nonsuppressing_hooks[j] => i = j

\* C11 where it holds: the same, for a call made when no hook is in a list twice.
C11_DisableByIdWhenEnabledOnce ==
    [][\A id \in AllIds:
          (CallsDisableById(id) /\ EnabledOnce) => RemovesExactlyTheHooksOf(id)]_vars

\* Where C11 holds: disable_hook_by_id was called with the hotkey two hooks
\* share and then again; both hooks are gone, the third is still registered.
C11_EnabledOnceWitness ==
    /\ Len(ops) = 2
    /\ ops[1].op = "disable_hook_by_id" /\ ops[1].id = <<"hotkey", Hooks["hk_a"].hotkey>>
    /\ ops[2] = [ops[1] EXCEPT !.before = Registry]
    /\ ops[1].before.suppressing_hooks = <<"hk_a", "hk_a3">>
    /\ suppressing_hooks = <<>>
    /\ nonsuppressing_hooks = <<"listener">>

\* C11 witness: enable() was called on a registered hook, then
\* disable_hook_by_id with the hook's callback; the hook is registered under
\* no id any more and is still in suppressing_hooks.
C11_Witness ==
    /\ Len(ops) = 2
    /\ ops[1].op = "enable" /\ ops[1].id = <<"handle", "hk_a">>
    /\ ops[2].op = "disable_hook_by_id" /\ ops[2].id = <<"callback", "hk_a">>
    /\ \A id \in AllIds: "hk_a" \notin hook_disable_by_id[id]
    /\ suppressing_hooks = <<"hk_a3", "hk_a">>

(***************************************************************************)
(* C12.  A stop() followed by start().                                     *)
(***************************************************************************)
\* start() made a new processing thread.
Restarts == Len(workers') = Len(workers) + 1

\* C12 (as claimed): after stop() followed by start() the press state is
\* reset: physically_pressed_keys, logically_pressed_keys and
\* active_modifiers are empty, whatever keys were recorded before the stop.
C12_RestartResetsPressState ==
    [][Restarts => /\ physically_pressed_keys' = {}
                   /\ logically_pressed_keys' = {}
                   /\ active_modifiers' = {}]_vars

\* What the code does: stop() and start() leave the three sets as they are.
C12_RestartKeepsPressState ==
    [][(Restarts \/ flag_running # flag_running')
         => UNCHANGED <<physically_pressed_keys, logically_pressed_keys,
                        active_modifiers>>]_vars

\* C12 witness: the listener was stopped and started again with a key and a
\* modifier down, and still has them as pressed.
C12_Witness ==
    /\ Len(workers) = 2
    /\ flag_running
    /\ Len(delivered) = 2
    /\ physically_pressed_keys = {0, -1}
    /\ logically_pressed_keys = {0, -1}
    /\ active_modifiers = {-1}

(***************************************************************************)
(* C13.  A single-key hook.                                                *)
(***************************************************************************)
\* The scenario with the one single-key hook, after a delivery.
KeyScenario == scenario.name = "key" /\ delivered # <<>>

\* The events delivered so far that are of the hook's key.
OfTheKey(id) == {i \in DOMAIN delivered: delivered[i].scan_code \in Range(Hooks[id].scan_codes)}

\* The hook's decision on the event just delivered is d when the event is of
\* the hook's key, and Allow otherwise; the predicate has been called once
\* for each event of the key and for no other, last for this event.
KeyHookDecides(d) ==
    /\ merged.event = Last(delivered)
    /\ Len(fired) = Cardinality(OfTheKey("key02"))
    /\ IF Len(delivered) \in OfTheKey("key02")
       THEN /\ Last(fired).event = Last(delivered)
            /\ merged.decisions = <<d>>
       ELSE merged.decisions = <<ALLOW>>

\* The predicate's last result.
LastResult == IF fired = <<>> THEN NONE ELSE Last(fired).result

\* C13 (as claimed): a single-key hook calls its predicate only for events
\* of its key and returns the result when it is Allow, Suspend or Suppress
\* and Allow when it is not; for every other event it returns Allow without
\* calling the predicate.
C13_KeyHookReturnsValidDecisionElseAllow ==
    KeyScenario =>
        KeyHookDecides(IF LastResult \in {ALLOW, SUSPEND, SUPPRESS} THEN LastResult ELSE ALLOW)

\* C13 (amended): a single-key hook calls its predicate only for events of
\* its key and returns the result when it is Allow or Suppress, and Suppress
\* when it is anything else (Suspend included); for every other event it
\* returns Allow without calling the predicate.
C13_KeyHookReturnsAllowOrSuppress ==
    KeyScenario =>
        KeyHookDecides(IF LastResult \in {ALLOW, SUPPRESS} THEN LastResult ELSE SUPPRESS)

\* C13 witness: an event of another key went by without a call, then the
\* predicate returned no decision for an event of the key, which was
\* suppressed.
C13_Witness ==
    /\ KeyScenario
    /\ Len(delivered) = 2
    /\ delivered[1].scan_code = 1
    /\ delivered[2].scan_code = 2
    /\ Len(fired) = 1
    /\ fired[1].result = NONE
    /\ merged.decisions = <<SUPPRESS>>
    /\ ret = "False"

(***************************************************************************)
(* C14.  The async queue.                                                  *)
(***************************************************************************)
\* The events the processing threads have taken off the queue, in order.
TakenEvents == [i \in DOMAIN taken |-> taken[i].event]

\* C14: every event delivered while the replaying guard is clear is put on
\* the async queue exactly once and in delivery order, before any
\* suppressing hook runs, whatever is decided about it (Allow, Suspend,
\* Suppress, or an exception leaving a hook); the events that arrive while
\* the guard is set are not queued.  So what was taken off the queue
\* followed by what is on it is what was delivered, every callback found its
\* event queued, and each put counted one unfinished task.
C14_DeliveredEventsAreQueuedOnce ==
    /\ TakenEvents \o async_events_queue = delivered
    /\ \A i \in DOMAIN fired: fired[i].queued
    /\ \A i \in DOMAIN guarded:
          guarded[i].after.async_events_queue = guarded[i].before.async_events_queue
    /\ unfinished_tasks = Len(delivered) - Cardinality({i \in DOMAIN taken: taken[i].hooks = <<>>})

\* C14 witness: three events are queued of which the last had suspended ones
\* replayed; the replayed events came back under the guard and were not
\* queued again.
C14_Witness ==
    /\ Len(delivered) = 3
    /\ async_events_queue = delivered
    /\ guarded # <<>>
    /\ Len(out) > Len(guarded)
    /\ \E i \in DOMAIN out: out[i].src = "pass"

(***************************************************************************)
(* C15.  The processing thread.                                            *)
(***************************************************************************)
\* async_events_queue.join() would return: no task is unfinished.
Drained == unfinished_tasks = 0

\* C15 (as claimed): while the listener is running, every event put on the
\* async queue is in the end taken by the processing thread, passed to every
\* non-suppressing hook and marked processed, so that a join on the queue
\* returns in the end (unless the listener is stopped first).
C15_QueueIsDrained == [](flag_running => <>(Drained \/ ~flag_running))

\* With no non-suppressing hook registered the queue is drained.
C15_QueueIsDrainedWithoutHooks ==
    []((flag_running /\ nonsuppressing_hooks = <<>>) => <>(Drained \/ ~flag_running))

\* The events are taken in the order they were put, and a non-suppressing
\* hook's callback is never called.
C15_TakenInOrderHooksNeverCalled ==
    /\ TakenEvents = SubSeq(delivered, 1, Len(taken))
    /\ \A h \in Range(nonsuppressing_hooks): calls[h] = 0

\* C15 witness: with a non-suppressing hook registered the thread of a running
\* listener took the first of two events and ended with a TypeError; the
\* hook's callback was not called, the second event stays queued and both
\* tasks unfinished.
C15_Witness ==
    /\ flag_running
    /\ workers = <<"TypeError">>
    /\ nonsuppressing_hooks = <<"listener">>
    /\ Len(delivered) = 2
    /\ TakenEvents = <<delivered[1]>>
    /\ async_events_queue = <<delivered[2]>>
    /\ calls["listener"] = 0
    /\ unfinished_tasks = 2

(***************************************************************************)
(* C16.  An event written as JSON and read back.                           *)
(***************************************************************************)
\* An event was written with to_json and one made of the parsed record.
RoundTripDone == roundtrip.stage = "parsed"

\* C16 (as claimed): serializing a KeyboardEvent with to_json and making a
\* KeyboardEvent of the parsed record gives an event equal to the original in
\* event type, scan code, name, time and the keypad flag.
C16_JsonRoundTrip ==
    RoundTripDone =>
        /\ EventEq(roundtrip.parsed, roundtrip.original)
        /\ roundtrip.parsed.is_numpad = roundtrip.original.is_numpad

\* What holds: the round trip keeps every attribute but the name, and the
\* name too unless it is " "; the name read back is the name normalized once
\* more.
C16_JsonRoundTripButName ==
    RoundTripDone =>
        /\ \A a \in Parameters \ {"name"}: roundtrip.parsed[a] = roundtrip.original[a]
        /\ roundtrip.original.name # PyStr(<<" ">>) => EventEq(roundtrip.parsed, roundtrip.original)
        /\ Truthy(roundtrip.original.name)
             => roundtrip.parsed.name = PyStr(normalize_name(roundtrip.original.name.s))

\* C16 witness: an event made with the name "nobreakspace", whose name is
\* " ", was written and read back as an event with the name "space".
C16_Witness ==
    /\ RoundTripDone
    /\ roundtrip.original.name = PyStr(<<" ">>)
    /\ roundtrip.json.name = Py("string", <<" ">>, 0, FALSE)
    /\ roundtrip.parsed.name = PyStr(<<"s", "p", "a", "c", "e">>)
    /\ roundtrip.parsed.is_numpad = PyBool(TRUE)
    /\ DOMAIN roundtrip.json = JsonAttrs

(***************************************************************************)
(* C17.  The trigger edge.                                                 *)
(***************************************************************************)
\* The call f of a hotkey's callback was made in state N while an event of
\* the last step's main key was processed, a Down unless the hotkey triggers
\* on release, and then an Up.
OnTriggerEdge(f) ==
    /\ f.state = Len(Hooks[f.id].hotkey)
    /\ IsMainKey(Hooks[f.id].hotkey[Len(Hooks[f.id].hotkey)], f.event)
    /\ f.event.event_type = (IF Hooks[f.id].trigger_on_release THEN KEY_UP ELSE KEY_DOWN)

\* The calls of hotkey callbacks.
HotkeyCalls == {i \in DOMAIN fired: Hooks[fired[i].id].kind = "hotkey"}

\* C17 (as claimed): a hotkey hook calls its callback only on the trigger
\* edge of the last step's main key and only in state N: while a Down of that
\* key is processed (never an Up) unless it triggers on release, and while an
\* Up of that key is processed if it does.
C17_CallbackOnlyOnTriggerEdge == \A i \in HotkeyCalls: OnTriggerEdge(fired[i])

\* The callback of the hook of call i has not raised before call i.
NotRaisedBefore(i) == \A j \in 1..(i-1): fired[j].id = fired[i].id => fired[j].result # RAISE

\* What holds: the callback is called in state N for an event of the last
\* step's main key, an Up if the hotkey triggers on release; and on the
\* trigger edge as long as the callback has not raised.
C17_CallbackOnTriggerEdgeUnlessRaised ==
    \A i \in HotkeyCalls:
        /\ fired[i].state = Len(Hooks[fired[i].id].hotkey)
        /\ IsMainKey(Hooks[fired[i].id].hotkey[Len(Hooks[fired[i].id].hotkey)], fired[i].event)
        /\ Hooks[fired[i].id].trigger_on_release => fired[i].event.event_type = KEY_UP
        /\ NotRaisedBefore(i) => OnTriggerEdge(fired[i])

\* C17 witness: the callback of a hotkey that triggers on press raised on
\* the press and was called again while the release was processed.
C17_Witness ==
    /\ Len(fired) = 2
    /\ fired[1].id = "hk_raise" /\ fired[1].result = RAISE
    /\ fired[1].event.event_type = KEY_DOWN
    /\ fired[2].id = "hk_raise"
    /\ fired[2].event.event_type = KEY_UP
    /\ fired[2].event = Last(delivered)

\* A hotkey that triggers on release was completed with its modifier down
\* and its callback called for the release of the main key.
C17_ReleaseWitness ==
    /\ Len(fired) = 1
    /\ fired[1].id = "hk_mrel"
    /\ fired[1].event = Last(delivered)
    /\ fired[1].event.event_type = KEY_UP /\ fired[1].event.scan_code = 0
    /\ -1 \in active_modifiers

(***************************************************************************)
(* C18.  Releases flagged for suppression.                                 *)
(***************************************************************************)
\* One hotkey is registered and nothing else, and its callback does not raise.
OneHotkey ==
    /\ Len(scenario.hooks) = 1
    /\ Hooks[scenario.hooks[1]].kind = "hotkey"
    /\ RAISE \notin Hooks[scenario.hooks[1]].results
    /\ suppressing_hooks = scenario.hooks

\* The step delivers an Up of a scan code the hook has flagged.
FlaggedUpDelivered(id) ==
    /\ Len(delivered') = Len(delivered) + 1
    /\ Last(delivered').event_type = KEY_UP
    /\ Last(delivered').scan_code \in hook_state[id].scan_code_releases_to_suppress

\* The Up just delivered is suppressed and its flag cleared.
SuppressedAndCleared(id) ==
    /\ merged'.decision = SUPPRESS
    /\ ret' = "False"
    /\ hook_state'[id].scan_code_releases_to_suppress
           = hook_state[id].scan_code_releases_to_suppress \ {Last(delivered').scan_code}

\* C18 (as claimed): once a hotkey whose callback did not return Allow has
\* flagged the scan codes of the suspended Downs it suppressed, the next Up
\* of a flagged scan code is suppressed and the flag cleared.
C18_FlaggedUpIsSuppressed ==
    [][OneHotkey /\ FlaggedUpDelivered(scenario.hooks[1])
         => SuppressedAndCleared(scenario.hooks[1])]_vars

\* What holds: the Up of a flagged scan code is suppressed and the flag
\* cleared unless a Down of the scan code is among the hook's suspended
\* events; then the Up is suspended with it and the flag stays.
C18_UnpairedFlaggedUpIsSuppressed ==
    [][OneHotkey /\ FlaggedUpDelivered(scenario.hooks[1])
         => IF Paired(hook_state[scenario.hooks[1]], Last(delivered'))
            THEN /\ merged'.decision = SUSPEND
                 /\ hook_state'[scenario.hooks[1]].scan_code_releases_to_suppress
                        = hook_state[scenario.hooks[1]].scan_code_releases_to_suppress
            ELSE SuppressedAndCleared(scenario.hooks[1])]_vars

\* C18 witness: the hotkey "0, 1" was completed and flagged 0 and 1; key 0,
\* still held, repeated and was released; the Down and the Up were then
\* replayed downstream, and 0 is still flagged with key 0 up.
C18_Witness ==
    /\ scenario.name = "ab"
    /\ Len(delivered) = 5
    /\ calls["hk_ab"] = 1
    /\ delivered[4].event_type = KEY_UP /\ delivered[4].scan_code = 0
    /\ \E i \in DOMAIN out: /\ out[i].src = "replay" /\ out[i].event_type = KEY_UP
                            /\ out[i].scan_code = 0 /\ out[i].time = delivered[4].time
    /\ 0 \in hook_state["hk_ab"].scan_code_releases_to_suppress
    /\ 0 \notin physically_pressed_keys

(***************************************************************************)
(* C19.  A hotkey whose callback returns Allow.                            *)
(***************************************************************************)
\* The step delivers an event that completes the one hotkey registered, and
\* the callback returns Allow.
AllowCompletion ==
    /\ OneHotkey
    /\ Len(delivered') = Len(delivered) + 1
    /\ Len(fired') = Len(fired) + 1
    /\ Last(fired').result = ALLOW

\* What the step passed downstream, the replayed and the passed events.
NewlySeen == SubSeq(out', Len(out) + 1, Len(out'))

\* The callback ran, then the suspended events were replayed in the order
\* they were delivered in, then the triggering event was passed.
SuspendedThenTriggerPassed ==
    /\ Len(NewlySeen) = Len(suspended_event_pairs) + 1
    /\ \A i \in DOMAIN suspended_event_pairs:
          /\ NewlySeen[i].src = "replay"
          /\ KeyboardEvent(NewlySeen[i].event_type, NewlySeen[i].scan_code, NewlySeen[i].time)
                = suspended_event_pairs[i].event
          /\ \E j \in DOMAIN delivered: delivered[j] = suspended_event_pairs[i].event
    /\ \A i, j \in DOMAIN suspended_event_pairs:
          i < j => suspended_event_pairs[i].event.time < suspended_event_pairs[j].event.time
    /\ Last(NewlySeen).src = "pass"
    /\ KeyboardEvent(Last(NewlySeen).event_type, Last(NewlySeen).scan_code, Last(NewlySeen).time)
          = Last(delivered')
    /\ \A k \in DOMAIN guarded': guarded'[k].before.calls = calls'
    /\ suspended_event_pairs' = <<>>
    /\ ret' = "True"

\* The event delivered before this step completed the hotkey with a callback
\* that returned Allow, and the step delivers the Up of that event's key.
UpAfterAllowCompletion ==
    /\ OneHotkey
    /\ fired # <<>> /\ Last(fired).result = ALLOW /\ Last(fired).event = Last(delivered)
    /\ Len(delivered') = Len(delivered) + 1
    /\ Last(delivered').event_type = KEY_UP
    /\ Last(delivered').scan_code = Last(delivered).scan_code

\* C19 (as claimed): when a hotkey completes and its callback returns Allow,
\* no event the hotkey consumed is suppressed: the callback runs first, then
\* every suspended event followed by the triggering event is passed
\* downstream in delivery order, and the later Up of the triggering key
\* passes too.
C19_AllowedHotkeyPassesEverything ==
    [][/\ AllowCompletion => SuspendedThenTriggerPassed
       /\ UpAfterAllowCompletion => ret' = "True"]_vars

\* What holds: the suspended events and the triggering event are passed; the
\* later Up passes unless its scan code was flagged by an earlier completion
\* whose callback did not return Allow, and then it is suppressed.
C19_AllowedHotkeyPassesUnlessFlagged ==
    [][/\ AllowCompletion => SuspendedThenTriggerPassed
       /\ UpAfterAllowCompletion
            => ret' = (IF Last(delivered').scan_code
                             \in hook_state[scenario.hooks[1]].scan_code_releases_to_suppress
                       THEN "False" ELSE "True")]_vars

\* C19 witness: the hotkey "0, 1" was completed twice with both keys held,
\* the callback returning None and then Allow; the second Down of key 1 was
\* passed downstream and its Up was suppressed, which leaves key 1 logically
\* pressed.
C19_Witness ==
    /\ scenario.name = "allowing"
    /\ Len(delivered) = 5
    /\ Len(fired) = 2 /\ fired[1].result = NONE /\ fired[2].result = ALLOW
    /\ fired[2].event = delivered[4]
    /\ delivered[5] = KeyboardEvent(KEY_UP, 1, delivered[5].time)
    /\ ret = "False"
    /\ Len(out) = 2 /\ out[1].src = "replay" /\ out[2].src = "pass" /\ out[2].scan_code = 1
    /\ 1 \in logically_pressed_keys \ physically_pressed_keys

\* The hotkey was completed with a suspended Down and its Up behind it, the
\* callback returned Allow, both were replayed and the triggering Down and
\* its Up passed.
C19_AllowedWitness ==
    /\ scenario.name = "allowing"
    /\ Len(delivered) = 4
    /\ Len(fired) = 1 /\ fired[1].result = ALLOW /\ fired[1].event = delivered[3]
    /\ Len(out) = 4
    /\ out[1].src = "replay" /\ out[2].src = "replay" /\ out[2].event_type = KEY_UP
    /\ out[3].src = "pass" /\ out[4].src = "pass" /\ out[4].event_type = KEY_UP

(***************************************************************************)
(* C20.  The order the hooks run in.                                       *)
(***************************************************************************)
\* The callbacks called in the step, in the order of the calls.
NewlyFired == SubSeq(fired', Len(fired) + 1, Len(fired'))

RECURSIVE InOrderOf(_, _)
\* The hooks of the calls are hooks of the list, in the order of the list.
InOrderOf(called, hooks) ==
    IF called = <<>> THEN TRUE
    ELSE IF hooks = <<>> THEN FALSE
    ELSE IF Head(called).id = Head(hooks) THEN InOrderOf(Tail(called), Tail(hooks))
    ELSE InOrderOf(called, Tail(hooks))

\* C20: for each event the suppressing hooks run one at a time in the order
\* they were registered in, up to one that raises; so the callbacks called
\* for one event are called in registration order, and of several hotkeys on
\* one key those that trigger on the Down are called, in registration order,
\* before any that triggers on release, which is called for the Up.
C20_HooksRunInRegistrationOrder ==
    [][Len(delivered') = Len(delivered) + 1
         => /\ evaluated' = (IF raised' THEN SubSeq(suppressing_hooks, 1, Len(evaluated'))
                             ELSE suppressing_hooks)
            /\ raised' => fired'[Len(fired')].id = evaluated'[Len(evaluated')]
            /\ InOrderOf(NewlyFired, suppressing_hooks)
            /\ \A i \in DOMAIN NewlyFired:
                  /\ NewlyFired[i].event = Last(delivered')
                  /\ Hooks[NewlyFired[i].id].trigger_on_release
                        => Last(delivered').event_type = KEY_UP]_vars

\* C20 witness: three hotkeys on key 0, the second triggering on release; the
\* Down called the first and the third callback, in this order, and the Up
\* the second.
C20_Witness ==
    /\ scenario.name = "order"
    /\ Len(delivered) = 2
    /\ evaluated = <<"hk_a", "hk_rel", "hk_a3">>
    /\ Len(fired) = 3
    /\ fired[1].id = "hk_a" /\ fired[1].event = delivered[1]
    /\ fired[2].id = "hk_a3" /\ fired[2].event = delivered[1]
    /\ fired[3].id = "hk_rel" /\ fired[3].event = delivered[2]
    /\ delivered[1].event_type = KEY_DOWN /\ delivered[2].event_type = KEY_UP

(***************************************************************************)
(* C21.  The keys of a chord pressed one after the other.                  *)
(***************************************************************************)
\* The one hook is a one-step hotkey whose step is not standard, and its two
\* keys a and b were pressed and released one after the other.
OneAfterTheOther(a, b) ==
    /\ OneHotkey
    /\ Len(Hooks[scenario.hooks[1]].hotkey) = 1
    /\ ~is_standard(Hooks[scenario.hooks[1]].hotkey[1])
    /\ a # b
    /\ IsMainKey(Hooks[scenario.hooks[1]].hotkey[1], KeyboardEvent(KEY_DOWN, a, 0))
    /\ IsMainKey(Hooks[scenario.hooks[1]].hotkey[1], KeyboardEvent(KEY_DOWN, b, 0))
    /\ Len(delivered) = 4
    /\ \A i \in 1..4: delivered[i].event_type = (IF i \in {1, 3} THEN KEY_DOWN ELSE KEY_UP)
    /\ delivered[1].scan_code = a /\ delivered[2].scan_code = a
    /\ delivered[3].scan_code = b /\ delivered[4].scan_code = b

\* What was seen downstream, as events.
OutEvents == [i \in DOMAIN out |-> KeyboardEvent(out[i].event_type, out[i].scan_code, out[i].time)]

\* C21 (as claimed): when the keys of a one-step chord that is not standard
\* are pressed and released one after the other, the callback is not called,
\* all four events have been passed downstream in order once the last
\* release is processed, and the hook is in state 0 with nothing suspended.
C21_SeparateKeysPassThrough ==
    \A a, b \in scenario.keys:
        OneAfterTheOther(a, b) =>
            /\ calls[scenario.hooks[1]] = 0
            /\ OutEvents = delivered
            /\ hook_state[scenario.hooks[1]].state = 0
            /\ hook_state[scenario.hooks[1]].suspended_events = <<>>

\* What holds: the callback is not called and the hook stays in state 0, but
\* the four events are all still suspended, by the hook and by the listener,
\* and none was passed downstream.
C21_SeparateKeysAreHeldBack ==
    \A a, b \in scenario.keys:
        OneAfterTheOther(a, b) =>
            /\ calls[scenario.hooks[1]] = 0
            /\ out = <<>>
            /\ hook_state[scenario.hooks[1]].state = 0
            /\ hook_state[scenario.hooks[1]].suspended_events = delivered
            /\ [i \in DOMAIN suspended_event_pairs |-> suspended_event_pairs[i].event] = delivered

\* C21 witness: keys 0 and 1 of the chord 0+1 were pressed and released one
\* after the other; nothing is pressed, and the four events are held back.
C21_Witness ==
    /\ OneAfterTheOther(0, 1)
    /\ physically_pressed_keys = {}
    /\ Len(suspended_event_pairs) = 4
    /\ out = <<>>
    /\ ret = "False"

(***************************************************************************)
(* C22.  logically_pressed_keys and what went downstream.                  *)
(***************************************************************************)
\* The places in `out` of the events of scan code c.
SeenOf(c) == {i \in DOMAIN out: out[i].scan_code = c}

\* The scan codes whose last event seen downstream (passed by the driver,
\* replayed, or a modifier pressed or released around a replay) is a Down.
DownDownstream ==
    {c \in {out[i].scan_code: i \in DOMAIN out}: out[MaxInt(SeenOf(c))].event_type = KEY_DOWN}

\* C22: after every processed event logically_pressed_keys is exactly the
\* set of scan codes whose most recent event passed downstream, directly or
\* by a replay, is a Down (with no later Up passed downstream).
C22_LogicallyPressedIsDownstreamState == logically_pressed_keys = DownDownstream

\* C22 witness: a replay released a modifier that is held, replayed a Down
\* typed without it and pressed the modifier again; the modifier is
\* logically pressed afterwards.
C22_Witness ==
    \E i, j, k \in DOMAIN out:
        /\ i < j /\ j < k /\ out[i].at = out[k].at
        /\ out[i].src = "fix" /\ out[i].event_type = KEY_UP
        /\ out[i].scan_code \in physically_pressed_keys
        /\ out[j].src = "replay" /\ out[j].event_type = KEY_DOWN
        /\ out[k].src = "fix" /\ out[k].event_type = KEY_DOWN
        /\ out[k].scan_code = out[i].scan_code
        /\ out[i].scan_code \in logically_pressed_keys

(***************************************************************************)
(* C23.  physically_pressed_keys and active_modifiers.                     *)
(***************************************************************************)
\* The places in `delivered` of the events of scan code c.
DeliveredOf(c) == {i \in DOMAIN delivered: delivered[i].scan_code = c}

\* The scan codes whose last event delivered by the driver is a Down.
DownDelivered ==
    {c \in {delivered[i].scan_code: i \in DOMAIN delivered}:
        delivered[MaxInt(DeliveredOf(c))].event_type = KEY_DOWN}

\* C23: in every reachable state active_modifiers is physically_pressed_keys
\* restricted to the modifier scan codes, and physically_pressed_keys is the
\* set of scan codes whose last delivered (not replayed) event is a Down;
\* both are functions of the events delivered, whatever was decided for
\* them, so that suppressing or suspending an event does not alter them.
C23_PressStateFollowsDeliveredEvents ==
    /\ active_modifiers = physically_pressed_keys \cap modifier_scan_codes
    /\ physically_pressed_keys = DownDelivered

\* C23 witness: the Down of a modifier was suspended and the Down of another
\* was kept from the system too (nothing went downstream), and the two sets
\* hold both keys all the same.
C23_Witness ==
    /\ Len(delivered) = 2 /\ out = <<>> /\ ret = "False"
    /\ delivered[1].event_type = KEY_DOWN /\ delivered[2].event_type = KEY_DOWN
    /\ delivered[1].scan_code # delivered[2].scan_code
    /\ physically_pressed_keys = {delivered[1].scan_code, delivered[2].scan_code}
    /\ active_modifiers = physically_pressed_keys
    /\ logically_pressed_keys = {}

(***************************************************************************)
(* C24.  Keys left pressed downstream.                                     *)
(***************************************************************************)
\* No key is physically pressed and the listener holds no suspended event.
AtRest == physically_pressed_keys = {} /\ suspended_event_pairs = <<>>

\* C24: with hotkey hooks only, in every state where no key is physically
\* pressed and the listener holds no suspended event, no key is logically
\* pressed: no Down went downstream whose Up was kept back, and no replay
\* left a modifier pressed.
C24_NoKeyStuckDownstream == (OneHotkey /\ AtRest) => logically_pressed_keys = {}

\* C24: the state the code reaches with the hotkey 0+1 after Down 0, a repeat
\* of Down 0, Down 1, Up 0, Up 1: the callback ran once, one Down 0 was
\* replayed downstream, both releases were suppressed, and key 0 stays
\* logically pressed with every key released.
C24_Witness ==
    /\ OneHotkey /\ AtRest
    /\ scenario.hooks = <<"hk_combo">>
    /\ Len(delivered) = 5
    /\ [i \in 1..5 |-> delivered[i].event_type] = <<KEY_DOWN, KEY_DOWN, KEY_DOWN, KEY_UP, KEY_UP>>
    /\ [i \in 1..5 |-> delivered[i].scan_code] = <<0, 0, 1, 0, 1>>
    /\ calls["hk_combo"] = 1
    /\ Len(out) = 1 /\ out[1].src = "replay" /\ out[1].event_type = KEY_DOWN
    /\ out[1].scan_code = 0
    /\ logically_pressed_keys = {0}
    /\ hook_state["hk_combo"].scan_code_releases_to_suppress = {}

(***************************************************************************)
(* C25.  The sets of pressed keys and the processing thread.               *)
(***************************************************************************)
\* The listener's set of that name, as it is now.
SetNamed(name) ==
    IF name = "physically_pressed_keys" THEN physically_pressed_keys ELSE active_modifiers

\* What the callee finds in an argument when it reads it now: a copy holds
\* what it held when it was made, the set itself what the listener has now.
Holds(argument) == IF argument.live THEN SetNamed(argument.name) ELSE argument.value

\* The calls the processing threads made to non-suppressing hooks.
WorkerCalls == {i \in DOMAIN taken: taken[i].hooks # <<>>}

\* A step of a processing thread, or a start() or stop().
ThreadStep == workers' # workers \/ taken' # taken \/ flag_running' # flag_running

\* C25 (as claimed): only the capture context changes the sets of pressed
\* keys, and what a processing thread passes to a non-suppressing hook is a
\* snapshot: whatever the capture context does afterwards, the arguments hold
\* what the sets held when the call was made.
C25_WorkerReceivesSnapshot ==
    \A i \in WorkerCalls: \A k \in DOMAIN taken[i].arguments:
        Holds(taken[i].arguments[k]) = taken[i].arguments[k].value

\* The first half holds: no step of a processing thread, and no start() or
\* stop(), changes one of the three sets.
C25_OnlyCaptureMutatesPressState ==
    [][ThreadStep => UNCHANGED <<physically_pressed_keys, logically_pressed_keys,
                                 active_modifiers>>]_vars

\* C25: a processing thread passed the sets to a non-suppressing hook with
\* key 0 down, and the capture context has removed the key since: the
\* argument passed holds another value than at the call.
C25_Witness ==
    \E i \in WorkerCalls:
        /\ taken[i].arguments[1].live
        /\ taken[i].arguments[1].value = {0}
        /\ Holds(taken[i].arguments[1]) = {}
        /\ workers[taken[i].by] = "TypeError"

(***************************************************************************)
(* C26.  One processing thread.                                            *)
(***************************************************************************)
\* The processing threads that are in async_events_queue.get(timeout=3).
Getting == {w \in DOMAIN workers: workers[w] = "get"}

\* C26 (as claimed): at any time at most one processing thread is taking
\* events from the async queue, a stop() at once followed by a start()
\* included.
C26_AtMostOneWorkerTakesEvents == Cardinality(Getting) <= 1

\* What holds: at most one thread holds a flag that is set, so that a thread
\* of an earlier run returns at its next test of the flag.
C26_OneWorkerOfTheCurrentRun == Cardinality({w \in DOMAIN workers: FlagOf(w)}) <= 1

\* C26: the listener was stopped and started again while its processing
\* thread waited for an event; the thread of the first run and the thread of
\* the second both wait on the queue, which holds an event either may take.
C26_Witness ==
    /\ flag_running
    /\ Len(workers) = 2
    /\ Getting = {1, 2}
    /\ Len(async_events_queue) = 1
    /\ taken = <<>>

(***************************************************************************)
(* C27.  The transition table: the steps forward.                          *)
(***************************************************************************)
\* A table is built.
Built == automaton.stage = "built"

\* The state the n-th input was looked up in.
StateBefore(n) ==
    IF n = 1 THEN 0 ELSE StateAfter(automaton.hotkey, automaton.targets[n-1])

\* C27: in the table built for a hotkey of N steps every input of step i
\* (the sorted tuple of one scan code per key of the step, over the whole
\* product) leads from i to i+1, every target is in 0..N, and a pair of
\* state and input that was not set leads to 0.
C27_TableStepsForward ==
    Built =>
        /\ \A i \in 0..(Len(automaton.hotkey) - 1):
              \A c \in StepInputs(automaton.hotkey[i+1]):
                 /\ <<i, c>> \in DOMAIN automaton.transitions
                 /\ automaton.transitions[<<i, c>>] = i + 1
        /\ \A k \in DOMAIN automaton.transitions:
              automaton.transitions[k] \in 0..Len(automaton.hotkey)
        /\ \A n \in DOMAIN automaton.inputs:
              <<StateBefore(n), automaton.inputs[n]>> \notin DOMAIN automaton.transitions
                 => automaton.targets[n] = 0

\* C27 witness: the table of a hotkey of two keys pressed together, twice,
\* then a third key, with the keys listed as 1, 0; the inputs (0, 1), (0, 1)
\* and (2) led to 1, 2 and 3, and then a key of no step to 0.
C27_Witness ==
    /\ Built
    /\ automaton.hotkey = <<StepOf(<<1, 0>>), StepOf(<<1, 0>>), StepOf(<<2>>)>>
    /\ automaton.inputs = << <<0, 1>>, <<0, 1>>, <<2>>, <<OtherKey>> >>
    /\ automaton.targets = <<1, 2, 3, 0>>
    /\ <<0, <<OtherKey>>>> \notin DOMAIN automaton.transitions

(***************************************************************************)
(* C28.  The transition table as a prefix function.                        *)
(***************************************************************************)
\* Two steps take the same inputs.
SameStep(a, b) == StepInputs(a) = StepInputs(b)

\* The last k of the steps 1..i followed by the input c are the first k
\* steps of the hotkey.
Overlaps(hotkey, i, c, k) ==
    /\ c \in StepInputs(hotkey[k])
    /\ \A m \in 1..(k-1): SameStep(hotkey[i - k + 1 + m], hotkey[m])

\* The length of the longest prefix of the hotkey that is a suffix of its
\* first i steps followed by the input c.
PrefixTarget(hotkey, i, c) ==
    MaxInt({0} \cup {k \in 1..(i+1): k <= Len(hotkey) /\ Overlaps(hotkey, i, c, k)})

\* Every key of every step has one scan code, and the keys of a step are
\* listed in the order of their scan codes.
PlainlyListed(hotkey) ==
    \A i \in DOMAIN hotkey:
        /\ \A k \in DOMAIN hotkey[i]: Len(hotkey[i][k]) = 1
        /\ \A k \in 1..(Len(hotkey[i]) - 1): hotkey[i][k][1] < hotkey[i][k+1][1]

\* C28 (as claimed): the table is the prefix-function automaton of the
\* steps: for every state i < N and every input c of some step the target of
\* (i, c) is the length of the longest prefix of the hotkey that is a suffix
\* of steps 0..i-1 followed by c, in whatever order the keys of a step were
\* listed.
C28_TableIsPrefixFunction ==
    Built =>
        \A i \in 0..(Len(automaton.hotkey) - 1):
           \A c \in Inputs(automaton.hotkey) \ {<<OtherKey>>}:
              Lookup(automaton.transitions, i, c) = PrefixTarget(automaton.hotkey, i, c)

\* What holds: the same, for the hotkeys whose keys have one scan code each
\* and are listed in the order of their scan codes.
C28_PlainTableIsPrefixFunction ==
    (Built /\ PlainlyListed(automaton.hotkey)) =>
        \A i \in 0..(Len(automaton.hotkey) - 1):
           \A c \in Inputs(automaton.hotkey) \ {<<OtherKey>>}:
              Lookup(automaton.transitions, i, c) = PrefixTarget(automaton.hotkey, i, c)

\* C28: the hotkey 1+0, 1+0, 2; the input (0, 1) came three times and then
\* (2): the last three inputs are the steps in order, the third (0, 1) led
\* from state 2 to 0 and the hotkey was not completed.
C28_Witness ==
    /\ Built
    /\ automaton.hotkey = <<StepOf(<<1, 0>>), StepOf(<<1, 0>>), StepOf(<<2>>)>>
    /\ automaton.inputs = << <<0, 1>>, <<0, 1>>, <<0, 1>>, <<2>> >>
    /\ automaton.targets = <<1, 2, 0, 0>>
    /\ PrefixTarget(automaton.hotkey, 2, <<0, 1>>) = 2

(***************************************************************************)
(* C29.  The scan codes of one key.                                        *)
(***************************************************************************)
\* C29 (as claimed): the scan codes of a key are interchangeable: in every
\* state, two inputs of the same step (which differ only in the scan code
\* that stands for a key) have the same target.
C29_EquivalentScanCodesSameTarget ==
    Built =>
        \A i \in 0..(Len(automaton.hotkey) - 1): \A j \in DOMAIN automaton.hotkey:
           \A c1, c2 \in StepInputs(automaton.hotkey[j]):
              Lookup(automaton.transitions, i, c1) = Lookup(automaton.transitions, i, c2)

\* What holds: two inputs of the step of the state itself have the same
\* target, the next state.
C29_SameTargetInTheStepsOwnState ==
    Built =>
        \A i \in 0..(Len(automaton.hotkey) - 1):
           \A c1, c2 \in StepInputs(automaton.hotkey[i+1]):
              Lookup(automaton.transitions, i, c1) = Lookup(automaton.transitions, i, c2)

\* C29: the hotkey K, K, 1 where K has the scan codes 0 and 2; scan code 0
\* came three times and then 1, and the hotkey was not completed: the third
\* 0 led from state 2 to 0, where a third 2 leads to 2.
C29_Witness ==
    /\ Built
    /\ automaton.hotkey = << <<EitherKey>>, <<EitherKey>>, StepOf(<<1>>) >>
    /\ automaton.inputs = << <<0>>, <<0>>, <<0>>, <<1>> >>
    /\ automaton.targets = <<1, 2, 0, 0>>
    /\ Lookup(automaton.transitions, 2, <<2>>) = 2
    /\ Lookup(automaton.transitions, 2, <<1>>) = 3

(***************************************************************************)
(* C30.  A press that comes exactly the timeout after the last one.        *)
(***************************************************************************)
\* The hotkey "0, 1" alone; a press of 0, perhaps its release, and a press
\* of 1 that comes exactly the timeout after the event before it, which is
\* the most recent suspended event.
PressAtTimeout ==
    /\ OneHotkey
    /\ scenario.hooks = <<"hk_ab">>
    /\ TypedAThenB
    /\ LastGap = Hooks["hk_ab"].timeout

\* C30 (as claimed): the hook resets its match on a Down only when the time
\* since its most recent suspended event exceeds the timeout; a Down that
\* comes exactly the timeout after it continues the match: the press of 1
\* completes the hotkey "0, 1", the callback is called and nothing goes
\* downstream.
C30_DownAtTimeoutContinuesMatch ==
    PressAtTimeout => (calls["hk_ab"] = 1 /\ out = <<>>)

\* What the code does: the match is reset, the callback is not called, the
\* suspended events of 0 are replayed in their order and the press of 1 is
\* passed.
C30_DownAtTimeoutResetsMatch ==
    PressAtTimeout =>
        /\ calls["hk_ab"] = 0
        /\ hook_state["hk_ab"].state = 0
        /\ hook_state["hk_ab"].suspended_events = <<>>
        /\ out = [i \in 1..(Len(delivered) - 1) |-> ReplayEntry(delivered[i], now)]
                 \o <<PassEntry(delivered[Len(delivered)])>>

\* C30: 0 pressed and released, 1 pressed exactly the timeout after the
\* release: the callback was not called, and the three events went downstream.
C30_Witness ==
    /\ PressAtTimeout
    /\ Len(delivered) = 3
    /\ calls["hk_ab"] = 0
    /\ Len(out) = 3
    /\ out[1].src = "replay" /\ out[2].src = "replay" /\ out[3].src = "pass"
    /\ logically_pressed_keys = {1}

(***************************************************************************)
(* C31.  The press that resets the hook after the timeout.                 *)
(***************************************************************************)
\* The step delivers an event to process_sync_event.
Delivers == Len(delivered') = Len(delivered) + 1

\* The one hotkey hook of the scenario.
TheHook == scenario.hooks[1]

\* The event delivered is a press that takes the hook through the timeout
\* reset: it reaches the branch of the transition table with the last
\* suspended event at least the timeout old.
CausesReset ==
    /\ OneHotkey /\ Delivers
    /\ Last(delivered').event_type = KEY_DOWN
    /\ ~(/\ Last(delivered').scan_code \in modifier_scan_codes
         /\ is_standard(ActiveStep(Hooks[TheHook].hotkey, hook_state[TheHook].state)))
    /\ hook_state[TheHook].state < Len(Hooks[TheHook].hotkey)
    /\ TimedOut(hook_state[TheHook].suspended_events, Last(delivered'), Hooks[TheHook].timeout)

\* By the rules of step 0 the press is an input of step 0.
FormsChordOfStepZero ==
    InputScanCodes(Hooks[TheHook].hotkey[1], Last(delivered'),
                   physically_pressed_keys', active_modifiers')
        \in StepInputs(Hooks[TheHook].hotkey[1])

\* C31 (as claimed): a press that causes the timeout reset is then matched
\* as the first event of a fresh attempt, from state 0 and by the rules of
\* step 0: when it is an input of step 0 the hook is in state 1 at the
\* return (0 again, after the callback, for a hotkey of one step).
C31_ResetPressStartsFreshAttempt ==
    [][(CausesReset /\ FormsChordOfStepZero)
          => hook_state'[TheHook].state = StateAfter(Hooks[TheHook].hotkey, 1)]_vars

\* What holds: the press is looked up from state 0, by the rules of the step
\* that was active before the reset.
C31_ResetPressUsesTheOldStep ==
    [][CausesReset
          => hook_state'[TheHook].state =
                StateAfter(Hooks[TheHook].hotkey,
                    Advance(Hooks[TheHook], Transitions[TheHook],
                            ActiveStep(Hooks[TheHook].hotkey, hook_state[TheHook].state),
                            hook_state[TheHook], Last(delivered'), 0, <<Last(delivered')>>,
                            physically_pressed_keys', active_modifiers').state)]_vars

\* C31: the hotkey "0, 1+2"; 0 was pressed and released, 1 pressed, and after
\* the timeout 0 pressed again with 1 still down: the hook is in state 0 and
\* every event went downstream.
C31_Witness ==
    /\ OneHotkey /\ TheHook = "hk_a_bc"
    /\ Len(delivered) = 4
    /\ [i \in 1..4 |-> delivered[i].event_type] = <<KEY_DOWN, KEY_UP, KEY_DOWN, KEY_DOWN>>
    /\ [i \in 1..4 |-> delivered[i].scan_code] = <<0, 0, 1, 0>>
    /\ delivered[4].time - delivered[3].time > Hooks["hk_a_bc"].timeout
    /\ hook_state["hk_a_bc"].state = 0
    /\ hook_state["hk_a_bc"].suspended_events = <<>>
    /\ Len(out) = 4 /\ ret = "True"

(***************************************************************************)
(* C32.  The state of a hotkey hook when process_event returns.            *)
(***************************************************************************)
\* The hotkey hooks whose process_event was called for the last event
\* delivered and returned.
ReturnedHotkeys ==
    {id \in Range(evaluated): /\ Hooks[id].kind = "hotkey"
                              /\ ~(raised /\ id = Last(evaluated))}

\* The last step of the hook's hotkey.
FinalStep(id) == Hooks[id].hotkey[Len(Hooks[id].hotkey)]

\* The hook triggers on release and a main key of its last step is held down.
WaitingForRelease(id) ==
    /\ Hooks[id].trigger_on_release
    /\ \E k \in physically_pressed_keys:
          IsMainKey(FinalStep(id), KeyboardEvent(KEY_DOWN, k, 0))

\* The callback of the hook was called while the last event was processed.
CalledForLast(id) ==
    \E i \in DOMAIN fired: fired[i].id = id /\ fired[i].event = Last(delivered)

\* What C32 says of the hook id at a return of its process_event.
StateAtReturn(id) ==
    /\ hook_state[id].state \in 0..Len(Hooks[id].hotkey)
    /\ hook_state[id].state = Len(Hooks[id].hotkey) => WaitingForRelease(id)
    /\ CalledForLast(id) => /\ hook_state[id].state = 0
                            /\ hook_state[id].suspended_events = <<>>

\* C32 (as claimed): at the return of every process_event call of a hotkey
\* hook with N steps the state is in 0..N, and it is N only when the hook
\* triggers on release and is waiting for the Up of the last step's main key;
\* when the callback was called during the call, the state is 0 and there
\* are no suspended events at the return, whatever the callback returned.
C32_StateAtReturn == \A id \in ReturnedHotkeys: StateAtReturn(id)

\* The callback of the hook has not raised so far.
NeverRaised(id) == \A i \in DOMAIN fired: fired[i].id = id => fired[i].result # RAISE

\* What holds: the same for the hooks whose callback has not raised; and the
\* state is in 0..N at every return.
C32_StateAtReturnUnlessRaised ==
    \A id \in ReturnedHotkeys:
        /\ hook_state[id].state \in 0..Len(Hooks[id].hotkey)
        /\ NeverRaised(id) => StateAtReturn(id)

\* C32: the callback of the hotkey 0, which triggers on press, raised on the
\* press of 0; the press of 1 was then processed and process_event returned
\* with the hook in state N = 1.
C32_Witness ==
    /\ scenario.hooks = <<"hk_raise">>
    /\ Len(delivered) = 2
    /\ delivered[1].scan_code = 0 /\ delivered[1].event_type = KEY_DOWN
    /\ delivered[2].scan_code = 1 /\ delivered[2].event_type = KEY_DOWN
    /\ Len(fired) = 1 /\ fired[1].result = RAISE
    /\ "hk_raise" \in ReturnedHotkeys
    /\ ~Hooks["hk_raise"].trigger_on_release
    /\ hook_state["hk_raise"].state = Len(Hooks["hk_raise"].hotkey)

(***************************************************************************)
(* C33.  A release leaves the state of a hotkey hook alone.                *)
(***************************************************************************)
\* The release that is delivered in this step.
DeliversUp == Delivers /\ Last(delivered').event_type = KEY_UP

\* The hook was in its last state and the step took it back to state 0.
CompletionReset(id) ==
    /\ hook_state[id].state = Len(Hooks[id].hotkey)
    /\ hook_state'[id].state = 0

\* The hook holds back a press of the key that is released in this step.
HasSuspendedDown(id) ==
    \E e \in Range(hook_state[id].suspended_events):
        e.event_type = KEY_DOWN /\ e.scan_code = Last(delivered').scan_code

\* C33: while the active step of a hotkey hook is standard, the delivery of
\* an Up event leaves the hook's state as it was unless the hook completes
\* and goes back to 0, and an Up of a key whose Down the hook holds back is
\* itself held back by the hook.
C33_UpKeepsState ==
    [][DeliversUp =>
        \A id \in HookIds:
            (/\ Hooks[id].kind = "hotkey"
             /\ is_standard(ActiveStep(Hooks[id].hotkey, hook_state[id].state)))
            => /\ hook_state'[id].state = hook_state[id].state \/ CompletionReset(id)
               /\ (id \in Range(evaluated') /\ HasSuspendedDown(id))
                  => \/ Last(delivered') \in Range(hook_state'[id].suspended_events)
                     \/ CompletionReset(id)]_vars

\* C33: hotkey "-1+0, 1".  The modifier -1 and the key 0 went down, the
\* modifier was released and pressed again, then 0 was released: the hook is
\* still in state 1 and holds back the press and the release of 0.
C33_Witness ==
    /\ scenario.hooks = <<"hk_mab">>
    /\ Len(delivered) = 5
    /\ [i \in 1..5 |-> <<delivered[i].event_type, delivered[i].scan_code>>]
         = << <<KEY_DOWN, -1>>, <<KEY_DOWN, 0>>, <<KEY_UP, -1>>,
              <<KEY_DOWN, -1>>, <<KEY_UP, 0>> >>
    /\ hook_state["hk_mab"].state = 1
    /\ hook_state["hk_mab"].suspended_events = <<delivered[2], delivered[5]>>

(***************************************************************************)
(* C34.  The modifiers around the replayed events.                         *)
(***************************************************************************)
\* What the listener sent and passed downstream in this step.
NewOut == SubSeq(out', Len(out) + 1, Len(out'))

RECURSIVE AfterFixes(_, _)
\* The modifier state the listener's own presses and releases of modifiers
\* (the "fix" entries) make of the state `modifiers`.
AfterFixes(modifiers, entries) ==
    IF entries = <<>> THEN modifiers
    ELSE AfterFixes(IF Head(entries).src # "fix" THEN modifiers
                    ELSE IF Head(entries).event_type = KEY_DOWN
                    THEN modifiers \cup {Head(entries).scan_code}
                    ELSE modifiers \ {Head(entries).scan_code},
                    Tail(entries))

\* The entries without the listener's presses and releases of modifiers.
RECURSIVE WithoutFixes(_)
WithoutFixes(entries) ==
    IF entries = <<>> THEN <<>>
    ELSE IF Head(entries).src = "fix" THEN WithoutFixes(Tail(entries))
    ELSE <<Head(entries)>> \o WithoutFixes(Tail(entries))

\* The modifiers stored with the suspended event that the entry replays.
SnapshotOf(entry) ==
    {p.modifiers: p \in {q \in Range(suspended_event_pairs):
                            /\ q.event.event_type = entry.event_type
                            /\ q.event.scan_code = entry.scan_code
                            /\ q.event.time = entry.time}}

\* At each replayed event the modifiers are those stored with the event.
ReplayedUnderSnapshot ==
    \A i \in DOMAIN NewOut:
        NewOut[i].src = "replay"
        => SnapshotOf(NewOut[i])
             = {AfterFixes(active_modifiers', SubSeq(NewOut, 1, i - 1))}

\* At the end of the pass the modifiers are the live ones again.
RestoredToLive == AfterFixes(active_modifiers', NewOut) = active_modifiers'

\* The modifiers that are down downstream are those that would be down
\* without the listener's presses and releases of modifiers.
NoNetEffectDownstream ==
    PressedAfter({}, out') \cap modifier_scan_codes
      = PressedAfter({}, out \o WithoutFixes(NewOut)) \cap modifier_scan_codes

\* C34 (as claimed): in a replay pass, the modifier state that the
\* listener's synthetic presses and releases produce equals, when an event
\* is injected, the snapshot stored with that event, it is back to the live
\* active_modifiers when the pass ends, and the pass has no net effect on
\* the modifiers that are down downstream.
C34_ReplayModifiersNoNetEffect ==
    [][Delivers => /\ ReplayedUnderSnapshot
                   /\ RestoredToLive
                   /\ NoNetEffectDownstream]_vars

\* What holds: the state the listener keeps track of is the snapshot at each
\* replayed event and the live set at the end.
C34_ReplayModifiersTracked ==
    [][Delivers => ReplayedUnderSnapshot /\ RestoredToLive]_vars

\* C34: hotkey "-1+-2", a chord of two modifiers.  -2 went down and repeated,
\* then -1 went down: the hotkey was triggered and the press of -1 was
\* suppressed, yet around the replay of the first press of -2 the listener
\* released and pressed -1, which is now down downstream.
C34_Witness ==
    /\ scenario.hooks = <<"hk_mods">>
    /\ Len(delivered) = 3
    /\ calls["hk_mods"] = 1
    /\ suspended_event_pairs = <<>>
    /\ [i \in DOMAIN out |-> <<out[i].src, out[i].event_type, out[i].scan_code>>]
         = << <<"fix", KEY_UP, -1>>, <<"replay", KEY_DOWN, -2>>, <<"fix", KEY_DOWN, -1>> >>
    /\ PressedAfter({}, out) = {-1, -2}

(***************************************************************************)
(* C35.  A processing thread ends once its listener is stopped.            *)
(***************************************************************************)
\* The most processing threads there are: one more than the stops.
MaxWorkers == MaxStops + 1

\* A step of the processing thread w.
WorkerStep(w) ==
    /\ w \in DOMAIN workers
    /\ WorkerCheck \/ WorkerTimeout \/ WorkerGet
    /\ workers'[w] # workers[w]

\* Each processing thread is a daemon thread of its own, which the
\* interpreter keeps scheduling, and get(timeout=3) returns after three
\* seconds at most: a step a thread can take is taken in the end, whatever
\* the other threads do.
WorkerFairSpec == Spec /\ \A w \in 1..MaxWorkers: WF_vars(WorkerStep(w))

\* stop() was called after the thread w was started: its flag is clear.
Stopped(w) == w \in DOMAIN workers /\ (w < Len(workers) \/ ~flag_running)

\* The thread w has left the loop of process_async_queue.
Exited(w) == w \in DOMAIN workers /\ workers[w] \in {"returned", "TypeError"}

\* C35: after stop() the processing thread that was running leaves its loop
\* in the end, also when start() is called again at once and when no
\* further event arrives.
C35_StoppedWorkerExits == \A w \in 1..MaxWorkers: [](Stopped(w) => <>Exited(w))

\* C35: the listener was stopped and started again, no event was ever
\* delivered; the thread of the first run saw its flag clear and returned,
\* the thread of the second run waits for an event.
C35_Witness ==
    /\ scenario.started
    /\ delivered = <<>>
    /\ flag_running
    /\ workers = <<"returned", "get">>

(***************************************************************************)
(* C36.  enable() and disable() of a hook.                                 *)
(***************************************************************************)
\* The hooks that were registered.
Registered == Range(scenario.hooks) \cup Range(scenario.nonsuppressing)

\* Only enable() and disable() of hooks have been called since the hooks
\* were registered.
OnlyHandleCalls == scenario.registry /\ \A i \in DOMAIN ops: ops[i].id[1] = "handle"

\* The calls made on the hook h.
CallsOn(h) == {i \in DOMAIN ops: ops[i].id = <<"handle", h>>}

\* The last call on h was enable(): register() calls it.
EnableWasLast(h) == CallsOn(h) = {} \/ ops[MaxInt(CallsOn(h))].op = "enable"

\* How many times h is in the lists of hooks.
Occurrences(h) ==
    Cardinality({i \in DOMAIN suppressing_hooks: suppressing_hooks[i] = h})
      + Cardinality({i \in DOMAIN nonsuppressing_hooks: nonsuppressing_hooks[i] = h})

\* The last two calls were disable() of the same hook.
DisabledTwice ==
    /\ Len(ops) >= 2
    /\ ops[Len(ops)].op = "disable_hook_by_id"
    /\ ops[Len(ops) - 1].op = "disable_hook_by_id"
    /\ ops[Len(ops)].id = ops[Len(ops) - 1].id

\* The second of two disable() calls changed nothing.
SecondDisableIsNoOp == DisabledTwice => Registry = ops[Len(ops)].before

\* C36 (as claimed): after any sequence of enable() and disable() calls on
\* hooks, each hook is at most once in its list of hooks and is there exactly
\* when the last call on it was enable(); a second disable() in a row
\* changes nothing.
C36_EnabledAtMostOnce ==
    OnlyHandleCalls
    => /\ \A h \in Registered: /\ Occurrences(h) <= 1
                               /\ Occurrences(h) >= 1 <=> EnableWasLast(h)
       /\ SecondDisableIsNoOp

\* enable() was only called on hooks that were disabled.
NeverEnabledTwice ==
    \A i \in DOMAIN ops:
        ops[i].op = "enable"
        => ops[i].id[2] \notin Range(ops[i].before.suppressing_hooks)
                                 \cup Range(ops[i].before.nonsuppressing_hooks)

\* What holds: the same when enable() was never called on an enabled hook;
\* and a second disable() changes nothing in any case.
C36_EnabledAtMostOnceUnlessEnabledTwice ==
    OnlyHandleCalls
    => /\ NeverEnabledTwice
          => \A h \in Registered: /\ Occurrences(h) <= 1
                                  /\ Occurrences(h) >= 1 <=> EnableWasLast(h)
       /\ SecondDisableIsNoOp

\* C36: enable() was called on the registered hotkey hook, then disable():
\* the hook is still in suppressing_hooks though the last call was disable().
C36_Witness ==
    /\ OnlyHandleCalls
    /\ Len(ops) = 2
    /\ ops[1].op = "enable" /\ ops[1].id = <<"handle", "hk_a">>
    /\ ops[2].op = "disable_hook_by_id" /\ ops[2].id = <<"handle", "hk_a">>
    /\ Occurrences("hk_a") = 1
    /\ ~EnableWasLast("hk_a")

\* C36: disable() was called twice on the hotkey hook; the second call left
\* everything as the first had left it.
C36_DisabledTwiceWitness ==
    /\ OnlyHandleCalls
    /\ DisabledTwice
    /\ ops[2].id = <<"handle", "hk_a">>
    /\ Occurrences("hk_a") = 0
    /\ Registry = ops[2].before

(***************************************************************************)
(* C37.  Events a callback sends while its hook is run.                    *)
(***************************************************************************)
\* The events callbacks sent while the last event was processed.
SentNow == {i \in DOMAIN out: out[i].src = "sent" /\ out[i].at = now}

\* The event of `delivered` is one a callback sent and the driver gave back.
IsEcho(e) ==
    \E i \in DOMAIN out: /\ out[i].src = "sent"
                         /\ out[i].at = e.time
                         /\ out[i].event_type = e.event_type
                         /\ out[i].scan_code = e.scan_code

\* The events of the keyboard itself.
PhysicalEvents == SelectSeq(delivered, LAMBDA e: ~IsEcho(e))

\* How many times process_event of h was entered for the last delivery.
Entered(h) == Cardinality({i \in DOMAIN evaluated: evaluated[i] = h})

\* C37 (as claimed): process_event of a hook is not entered again while a
\* call of it is in progress: the events a hotkey's callback sends through
\* the driver, which delivers them at once, are not given to the suppressing
\* hooks and leave physically_pressed_keys as the keyboard's own events made it.
C37_SentEventsBypassHooks ==
    (SentNow # {} /\ EnabledOnce)
    => /\ \A h \in Range(suppressing_hooks): Entered(h) <= 1
       /\ physically_pressed_keys = TruePressed(PhysicalEvents)

\* What the code does: the event a callback sends is processed as an event of
\* the keyboard, while the hook is still in its call: the hook is entered a
\* second time, the key is recorded as pressed and the event is queued for
\* the processing thread.
C37_SentEventsAreProcessed ==
    (SentNow # {} /\ EnabledOnce)
    => \A i \in SentNow:
          /\ \A h \in Range(suppressing_hooks): Entered(h) = 2
          /\ out[i].event_type = KEY_DOWN => out[i].scan_code \in physically_pressed_keys
          /\ KeyboardEvent(out[i].event_type, out[i].scan_code, out[i].at)
                 \in Range(async_events_queue)

\* Without such a callback, and with every hook registered once, no hook is
\* entered twice for an event.
C37_NoReentryWithoutSending ==
    (ops = <<>> /\ \A i \in DOMAIN out: out[i].src # "sent")
    => \A h \in Range(suppressing_hooks): Entered(h) <= 1

\* C37: the hotkey 0 has a callback that presses key 1.  Key 0 went down:
\* the callback ran, the press of 1 went through process_sync_event and the
\* hook at once; key 1 is recorded as physically and logically pressed.
C37_Witness ==
    /\ scenario.hooks = <<"hk_send">>
    /\ PhysicalEvents = <<KeyboardEvent(KEY_DOWN, 0, 1)>>
    /\ calls["hk_send"] = 1
    /\ evaluated = <<"hk_send", "hk_send">>
    /\ physically_pressed_keys = {0, CallbackKey}
    /\ logically_pressed_keys = {CallbackKey}
    /\ [i \in DOMAIN out |-> <<out[i].src, out[i].event_type, out[i].scan_code>>]
         = << <<"sent", KEY_DOWN, CallbackKey>> >>
    /\ ret = "False"
    /\ hook_state["hk_send"].state = 0

(***************************************************************************)
(* C38.  The replaying guard and the events of the keyboard.               *)
(***************************************************************************)
\* C38 (as claimed): between two calls of process_sync_event the replaying
\* guard is clear, also when another thread calls restore_state, so that
\* every event of the keyboard is recorded in physically_pressed_keys and
\* given to the suppressing hooks: none is taken for an event the listener
\* sent itself.
C38_RealEventsAreRecorded == ~is_replaying /\ bypassed = <<>>

\* What holds: the same as long as restore_state is not called.
C38_RealEventsAreRecordedWithoutRestore ==
    ~scenario.restores => (~is_replaying /\ bypassed = <<>>)

\* And with the guard left set, an event of the keyboard is passed on without
\* any hook being run, and changes nothing in the listener but
\* logically_pressed_keys.
C38_BypassedEventChangesNothing ==
    [][(is_replaying /\ Len(bypassed') = Len(bypassed) + 1)
        => /\ UNCHANGED <<physically_pressed_keys, active_modifiers, hook_state, calls,
                          async_events_queue, is_replaying>>
           /\ logically_pressed_keys' = LogicalUpdate(logically_pressed_keys, Last(bypassed'))
           /\ ret' = "True"]_vars

\* C38: restore_state was called and left the guard set; then key 0, the
\* hotkey of the one hook, went down: the press was passed downstream, but
\* it is not recorded as pressed and the hook was not run.
C38_Witness ==
    /\ scenario.restores
    /\ is_replaying
    /\ delivered = <<>>
    /\ bypassed = <<KeyboardEvent(KEY_DOWN, 0, 1)>>
    /\ physically_pressed_keys = {}
    /\ calls["hk_a"] = 0
    /\ hook_state["hk_a"].state = 0
    /\ ret = "True"
    /\ Len(out) = 1 /\ out[1].src = "pass" /\ out[1].scan_code = 0

(***************************************************************************)
(* C39.  The order of the events passed downstream.                        *)
(***************************************************************************)
\* The entries of `out` that are events of the keyboard: passed by the
\* driver when True came back, or replayed.  `time` is the time of the event.
PassedOn == {i \in DOMAIN out: out[i].src \in {"pass", "replay"}}

\* C39 (as claimed): the events of the keyboard that are passed downstream,
\* at once or replayed, are passed in the order they were delivered in: no
\* event is passed before an event that was delivered before it and is
\* still suspended.
C39_PassedInDeliveryOrder ==
    \A i, j \in PassedOn: i < j => out[i].time < out[j].time

\* What holds: the events passed at once are in the order of delivery among
\* themselves, and so are the replayed events; an event is only ever
\* overtaken while it is suspended.
C39_OnlySuspendedEventsAreOvertaken ==
    \A i, j \in PassedOn:
        (i < j /\ out[i].time >= out[j].time)
        => /\ out[i].time > out[j].time
           /\ out[i].src = "pass"
           /\ out[j].src = "replay"
           /\ out[j].at > out[i].at

\* C39: hotkey "0, 1".  Key 0 went down and is suspended; the modifier -1
\* went down and was passed at once; a second press of 0 ended the match and
\* the first press of 0 was replayed, after the press of -1 that was
\* delivered after it.
C39_Witness ==
    /\ scenario.hooks = <<"hk_ab">>
    /\ Len(delivered) = 3
    /\ [i \in 1..3 |-> <<delivered[i].event_type, delivered[i].scan_code>>]
         = << <<KEY_DOWN, 0>>, <<KEY_DOWN, -1>>, <<KEY_DOWN, 0>> >>
    /\ \E i, j \in PassedOn:
          /\ i < j
          /\ out[i].src = "pass" /\ out[i].scan_code = -1
          /\ out[i].time = delivered[2].time
          /\ out[j].src = "replay" /\ out[j].scan_code = 0
          /\ out[j].time = delivered[1].time

(***************************************************************************)
(* C40.  Suspended events and the timeout.                                 *)
(***************************************************************************)
\* The step delivers a press of a key that is no modifier, more than the
\* timeout of the hotkey hook id after the last event the hook holds back,
\* and the hook's process_event is called for it and returns.
LatePress(id) ==
    /\ Delivers
    /\ Hooks[id].kind = "hotkey"
    /\ id \in Range(evaluated') /\ ~raised'
    /\ Last(delivered').event_type = KEY_DOWN
    /\ Last(delivered').scan_code \notin modifier_scan_codes
    /\ hook_state[id].suspended_events # <<>>
    /\ Last(delivered').time - LastTime(hook_state[id].suspended_events)
           > Hooks[id].timeout

\* The hook has let go of the events it held back, and with one hook
\* registered the listener has replayed or dropped them.
LetsGo(id) ==
    /\ \A e \in Range(hook_state[id].suspended_events):
           e \notin Range(hook_state'[id].suspended_events)
    /\ suppressing_hooks = <<id>>
       => \A e \in Range(hook_state[id].suspended_events):
              \A p \in Range(suspended_event_pairs'): p.event # e

\* C40 (as claimed): once the timeout has passed since the last event a
\* hotkey hook holds back, the next press of a key that is no modifier makes
\* the hook let go of all the events it holds back, whatever its state and
\* whether or not it triggers on release, and the listener replays or drops
\* them in the same call.
C40_LatePressReleasesSuspended ==
    [][\A id \in HookIds: LatePress(id) => LetsGo(id)]_vars

\* What holds: the same for a hook that has not reached its last state.
C40_LatePressReleasesSuspendedBeforeLastState ==
    [][\A id \in HookIds:
          (LatePress(id) /\ hook_state[id].state < Len(Hooks[id].hotkey))
          => LetsGo(id)]_vars

\* C40: the hotkey 0 triggers on release.  Key 0 went down and is held back;
\* more than the timeout later key 1 went down and was passed on, and the
\* press of 0 is still held back, the hook still in its last state.
C40_Witness ==
    /\ scenario.hooks = <<"hk_rel">>
    /\ Len(delivered) = 2
    /\ delivered[1].event_type = KEY_DOWN /\ delivered[1].scan_code = 0
    /\ delivered[2].event_type = KEY_DOWN /\ delivered[2].scan_code = 1
    /\ delivered[2].time - delivered[1].time > Hooks["hk_rel"].timeout
    /\ evaluated = <<"hk_rel">>
    /\ hook_state["hk_rel"].state = 1
    /\ hook_state["hk_rel"].suspended_events = <<delivered[1]>>
    /\ [i \in DOMAIN suspended_event_pairs |-> suspended_event_pairs[i].event]
         = <<delivered[1]>>
    /\ ret = "True"
====
